---- MODULE Spec2Model ----
(***************************************************************************)
(* yamlforge: schema model, DDL synthesizer, validation engine, query      *)
(* compiler and persistence engine, modelled as state machines.            *)
(*                                                                         *)
(*   SpecSchema    SQLiteDB.CreateSchema, one step per loop iteration      *)
(*   SpecValidate  Validator.ValidateCreate / ValidateUpdate on a payload   *)
(*   SpecQuery     SQLiteDB.Query: page 1, page 2, unpaginated              *)
(*   SpecAPI       the request handlers of one model over the store        *)
(***************************************************************************)
EXTENDS Integers, Sequences, FiniteSets, TLC

VARIABLES
    \* ---- SQLiteDB.CreateSchema ----
    csSchema,     \* the *parser.Schema handed to CreateSchema: model name -> Model
    csPc,         \* position inside CreateSchema: idle / tables / indexes / done / failed
    csPending,    \* models the current range loop has not visited yet
    csRuns,       \* number of CreateSchema calls started
    csErr,        \* the error the last CreateSchema call returned, "" for nil
    execLog,      \* DDL statements handed to db.conn.Exec by the current call, in order
    tables,       \* tables that exist in the store
    indexes,      \* indexes that exist in the store
    \* ---- validation.Validator ----
    vModel,       \* the Model the Validator looks up
    vData,        \* the payload, map[string]any
    vOp,          \* which entry point ran: none / create / update
    vOrder,       \* the order in which ValidateUpdate's range yielded the payload keys
    vErr,         \* the error the entry point returned
    \* ---- SQLiteDB over the store, api.Server ----
    rows,         \* the rows of the model's table in the store
    nextId,       \* the id AUTOINCREMENT hands to the next inserted row
    qParams,      \* the QueryParams under study, Page left open
    qRuns,        \* what SQLiteDB.Query returned for page 1, page 2 and unpaginated
    qCount,       \* what SQLiteDB.Count returned for the filters of qParams
    req,          \* the HTTP request being served
    resp,         \* the HTTP response written for req
    sent,         \* the statements handed to db.conn while serving req, in order
    \* ---- parser.ParseConfig, parser.LoadConfig ----
    pIn,          \* the Config as yaml.Unmarshal filled it from the file
    pPc,          \* start / parsed / failed / loaded
    pConfig,      \* the *Config ParseConfig returned, <<>> for nil
    pErr,         \* the error ParseConfig returned, "" for nil
    pSchema       \* the *Schema LoadConfig returned, <<>> before

csVars == <<csSchema, csPc, csPending, csRuns, csErr, execLog, tables, indexes>>
valVars == <<vModel, vData, vOp, vOrder, vErr>>
dbVars == <<rows, nextId, qParams, qRuns, qCount, req, resp, sent>>
parseVars == <<pIn, pPc, pConfig, pErr, pSchema>>
vars == <<csSchema, csPc, csPending, csRuns, csErr, execLog, tables, indexes,
          vModel, vData, vOp, vOrder, vErr,
          rows, nextId, qParams, qRuns, qCount, req, resp, sent,
          pIn, pPc, pConfig, pErr, pSchema>>

(***************************************************************************)
(* Bounds of the model                                                     *)
(***************************************************************************)
MaxRuns == 2
MaxPayloadKeys == 2
MaxRows == 2

(***************************************************************************)
(* parser.Field / parser.Model / parser.Schema                             *)
(***************************************************************************)
\* Optional *int (Field.Min, Field.Max): <<>> is the nil pointer, <<n>> points to n.
NoInt == <<>>
SomeInt(n) == <<n>>

\* The zero value of parser.Field with a name and a type.
Field(name, type) ==
    [Name |-> name, Type |-> type, Primary |-> FALSE, Required |-> FALSE,
     Unique |-> FALSE, Nullable |-> FALSE, Index |-> FALSE,
     Min |-> NoInt, Max |-> NoInt, Pattern |-> "", Options |-> <<>>,
     RelatedTo |-> "", OnDelete |-> ""]

Model(name, fields, searchable) ==
    [Name |-> name, Fields |-> fields, Searchable |-> searchable]

IdField == [Field("id", "id") EXCEPT !.Primary = TRUE]

UserModel ==
    Model("User",
          << IdField,
             [Field("name", "text") EXCEPT !.Required = TRUE, !.Index = TRUE,
                                           !.Min = SomeInt(3), !.Max = SomeInt(8)],
             [Field("age", "number") EXCEPT !.Min = SomeInt(0), !.Max = SomeInt(120)],
             [Field("email", "email") EXCEPT !.Unique = TRUE, !.Index = TRUE] >>,
          <<"name">>)

PostModel ==
    Model("Post",
          << IdField,
             [Field("title", "text") EXCEPT !.Required = TRUE, !.Index = TRUE],
             [Field("author", "relation") EXCEPT !.RelatedTo = "User",
                                                 !.OnDelete = "cascade",
                                                 !.Index = TRUE] >>,
          <<"title">>)

\* A model whose primary key is not of the id type.
TagModel ==
    Model("Tag",
          << [Field("slug", "slug") EXCEPT !.Primary = TRUE, !.Required = TRUE,
                                           !.Unique = TRUE, !.Index = TRUE],
             [Field("label", "text") EXCEPT !.Required = TRUE, !.Nullable = TRUE],
             [Field("note", "text") EXCEPT !.Pattern = "^a"] >>,
          <<>>)

\* An optional constrained field declared before a required one.
MemberModel ==
    Model("Member",
          << [Field("age", "number") EXCEPT !.Min = SomeInt(0), !.Max = SomeInt(120)],
             IdField,
             [Field("name", "text") EXCEPT !.Required = TRUE] >>,
          <<"name">>)

AccountModel ==
    Model("Account",
          << IdField,
             Field("site", "url"),
             [Field("role", "enum") EXCEPT !.Required = TRUE,
                                           !.Options = <<"ab", "user">>],
             Field("active", "boolean"),
             Field("born", "datetime") >>,
          <<>>)

VaultModel ==
    Model("Vault",
          << IdField,
             [Field("pw", "password") EXCEPT !.Required = TRUE, !.Min = SomeInt(3)],
             [Field("code", "text") EXCEPT !.Pattern = "("],
             Field("blob", "json") >>,
          <<>>)

\* A model with relations to the other models: one per ON DELETE policy
\* and one without a policy.
CommentModel ==
    Model("Comment",
          << IdField,
             [Field("post", "relation") EXCEPT !.RelatedTo = "Post",
                                               !.OnDelete = "set_null"],
             [Field("tag", "relation") EXCEPT !.RelatedTo = "Tag",
                                              !.OnDelete = "restrict"],
             [Field("owner", "relation") EXCEPT !.RelatedTo = "User"] >>,
          <<>>)

ModelCatalog == {UserModel, PostModel, TagModel, CommentModel}

\* A Schema maps model names to Models (Schema.Models).
SchemaOf(models) ==
    [n \in {m.Name : m \in models} |-> CHOOSE m \in models : m.Name = n]

Schemas == {SchemaOf(ms) : ms \in (SUBSET ModelCatalog) \ {{}}}

(***************************************************************************)
(* Dynamically typed values (Go any, as decoded from JSON)                 *)
(***************************************************************************)
Nil == [k |-> "nil"]
Str(s) == [k |-> "str", s |-> s]
Num(n) == [k |-> "num", n |-> n]
Bool(b) == [k |-> "bool", b |-> b]

Strings == {"", "ab", "a@b.co", "http://x.y"}
Numbers == {-1, 5, 200}
Values == {Nil} \cup {Str(s) : s \in Strings} \cup {Num(n) : n \in Numbers}
          \cup {Bool(TRUE)}

\* map[string]any with at most MaxPayloadKeys keys drawn from keys.
Payloads(keys) ==
    UNION {[S -> Values] :
             S \in {T \in SUBSET keys : Cardinality(T) <= MaxPayloadKeys}}

FieldNames(model) == {model.Fields[i].Name : i \in 1..Len(model.Fields)}

\* The keys a request body may carry: the columns of the model and a stray one.
PayloadKeys(model) == FieldNames(model) \cup {"bogus"}

(***************************************************************************)
(* Validation engine: validation.Validator                                 *)
(***************************************************************************)
\* A nil error; at is the loop position at which the entry point returned.
NoError == [ok |-> TRUE, Field |-> "", Message |-> "", at |-> 0]

ValidationError(field, message) ==
    [ok |-> FALSE, Field |-> field, Message |-> message, at |-> 0]

\* regexp.MatchString on the patterns and strings of the model: err is a
\* pattern that does not compile.
RegexpMatch(pattern, str) ==
    CASE pattern = "^a" ->
            [err |-> FALSE, matched |-> str \in {"ab", "a@b.co"}]
      [] pattern = "(" ->
            [err |-> TRUE, matched |-> FALSE]
      [] pattern = "^[a-zA-Z0-9._%+-]+@[a-zA-Z0-9.-]+\\.[a-zA-Z]{2,}$" ->
            [err |-> FALSE, matched |-> str \in {"a@b.co"}]
      [] pattern = "^https?://[^\\s/$.?#].[^\\s]*$" ->
            [err |-> FALSE, matched |-> str \in {"http://x.y"}]
      [] OTHER ->
            [err |-> FALSE, matched |-> TRUE]

validateText(field, value) ==
    IF value.k # "str"
       THEN ValidationError(field.Name, "must be a string")
    ELSE IF field.Min # NoInt /\ Len(value.s) < field.Min[1]
       THEN ValidationError(field.Name,
               "must be at least " \o ToString(field.Min[1]) \o " characters")
    ELSE IF field.Max # NoInt /\ Len(value.s) > field.Max[1]
       THEN ValidationError(field.Name,
               "must be at most " \o ToString(field.Max[1]) \o " characters")
    ELSE IF field.Pattern # ""
       THEN LET r == RegexpMatch(field.Pattern, value.s) IN
            IF r.err THEN ValidationError(field.Name, "invalid pattern")
            ELSE IF ~r.matched
               THEN ValidationError(field.Name, "does not match required pattern")
            ELSE NoError
    ELSE NoError

validateNumber(field, value) ==
    IF value.k # "num"
       THEN ValidationError(field.Name, "must be a number")
    ELSE IF field.Min # NoInt /\ value.n < field.Min[1]
       THEN ValidationError(field.Name, "must be at least " \o ToString(field.Min[1]))
    ELSE IF field.Max # NoInt /\ value.n > field.Max[1]
       THEN ValidationError(field.Name, "must be at most " \o ToString(field.Max[1]))
    ELSE NoError

validateBoolean(field, value) ==
    IF value.k # "bool"
       THEN ValidationError(field.Name, "must be a boolean")
       ELSE NoError

validateEmail(field, value) ==
    IF value.k # "str"
       THEN ValidationError(field.Name, "must be a string")
    ELSE IF ~RegexpMatch("^[a-zA-Z0-9._%+-]+@[a-zA-Z0-9.-]+\\.[a-zA-Z]{2,}$",
                         value.s).matched
       THEN ValidationError(field.Name, "must be a valid email address")
    ELSE NoError

validateURL(field, value) ==
    IF value.k # "str"
       THEN ValidationError(field.Name, "must be a string")
    ELSE IF ~RegexpMatch("^https?://[^\\s/$.?#].[^\\s]*$", value.s).matched
       THEN ValidationError(field.Name, "must be a valid URL")
    ELSE NoError

RECURSIVE JoinOptions(_, _)
JoinOptions(options, i) ==
    IF i > Len(options) THEN ""
    ELSE IF i = Len(options) THEN options[i]
    ELSE options[i] \o ", " \o JoinOptions(options, i + 1)

validateEnum(field, value) ==
    IF value.k # "str"
       THEN ValidationError(field.Name, "must be a string")
    ELSE IF \E i \in 1..Len(field.Options) : value.s = field.Options[i]
       THEN NoError
    ELSE ValidationError(field.Name,
            "must be one of: " \o JoinOptions(field.Options, 1))

validateDatetime(field, value) ==
    IF value.k # "str"
       THEN ValidationError(field.Name, "must be a string")
       ELSE NoError

validateField(field, value) ==
    IF value = Nil
       THEN IF field.Nullable THEN NoError
            ELSE IF field.Required
               THEN ValidationError(field.Name, "field is required")
            ELSE NoError
    ELSE CASE field.Type \in {"text", "password"} -> validateText(field, value)
           [] field.Type = "number" -> validateNumber(field, value)
           [] field.Type = "boolean" -> validateBoolean(field, value)
           [] field.Type = "email" -> validateEmail(field, value)
           [] field.Type = "url" -> validateURL(field, value)
           [] field.Type = "enum" -> validateEnum(field, value)
           [] field.Type \in {"datetime", "date", "time"} ->
                 validateDatetime(field, value)
           [] OTHER -> NoError

\* Validator.getField: the index of the first field with that name, 0 if none.
getField(model, fieldName) ==
    IF fieldName \in FieldNames(model)
       THEN CHOOSE i \in 1..Len(model.Fields) :
               /\ model.Fields[i].Name = fieldName
               /\ \A j \in 1..(i - 1) : model.Fields[j].Name # fieldName
       ELSE 0

\* ValidateCreate skips every primary field, whatever its type.
SkippedOnCreatePrimary(field) == field.Primary

\* The field ValidateCreate does not look at: the auto-generated identifier.
SkippedOnCreate(field) == field.Primary /\ field.Type = "id"

\* The loop of ValidateCreate over model.Fields, from position i on.
RECURSIVE ValidateCreateFrom(_, _, _)
ValidateCreateFrom(model, data, i) ==
    IF i > Len(model.Fields) THEN NoError
    ELSE LET field == model.Fields[i]
             exists == field.Name \in DOMAIN data
         IN  IF SkippedOnCreate(field)
                THEN ValidateCreateFrom(model, data, i + 1)
             ELSE IF field.Required /\ ~exists
                THEN [ValidationError(field.Name, "field is required")
                         EXCEPT !.at = i]
             ELSE IF exists /\ ~validateField(field, data[field.Name]).ok
                THEN [validateField(field, data[field.Name]) EXCEPT !.at = i]
             ELSE ValidateCreateFrom(model, data, i + 1)

\* ValidateCreate keeps going after a failure and returns the last error found.
RECURSIVE ValidateCreateLastFrom(_, _, _)
ValidateCreateLastFrom(model, data, i) ==
    IF i < 1 THEN NoError
    ELSE LET field == model.Fields[i]
             exists == field.Name \in DOMAIN data
         IN  IF SkippedOnCreate(field)
                THEN ValidateCreateLastFrom(model, data, i - 1)
             ELSE IF field.Required /\ ~exists
                THEN [ValidationError(field.Name, "field is required")
                         EXCEPT !.at = i]
             ELSE IF exists /\ ~validateField(field, data[field.Name]).ok
                THEN [validateField(field, data[field.Name]) EXCEPT !.at = i]
             ELSE ValidateCreateLastFrom(model, data, i - 1)

ValidateCreateKeepsGoing(model, data) ==
    ValidateCreateLastFrom(model, data, Len(model.Fields))

ValidateCreate(model, data) == ValidateCreateFrom(model, data, 1)

\* ValidateUpdate lets a key through that is not a field of the model.
UpdateEntryIgnoresUnknown(model, fieldName, value) ==
    LET i == getField(model, fieldName) IN
    IF i = 0 THEN NoError
    ELSE IF model.Fields[i].Primary
       THEN ValidationError(fieldName, "cannot update primary key")
    ELSE validateField(model.Fields[i], value)

\* What the body of the loop of ValidateUpdate returns for one payload entry.
UpdateEntry(model, fieldName, value) ==
    LET i == getField(model, fieldName) IN
    IF i = 0 THEN ValidationError(fieldName, "field does not exist")
    ELSE IF model.Fields[i].Primary
       THEN ValidationError(fieldName, "cannot update primary key")
    ELSE validateField(model.Fields[i], value)

\* The loop of ValidateUpdate over the payload, whose range yields the keys in
\* the order given, from position i on.
RECURSIVE ValidateUpdateFrom(_, _, _, _)
ValidateUpdateFrom(model, data, order, i) ==
    IF i > Len(order) THEN NoError
    ELSE IF ~UpdateEntry(model, order[i], data[order[i]]).ok
       THEN [UpdateEntry(model, order[i], data[order[i]]) EXCEPT !.at = i]
    ELSE ValidateUpdateFrom(model, data, order, i + 1)

ValidateUpdate(model, data, order) == ValidateUpdateFrom(model, data, order, 1)

\* The orders in which a range over the map may yield its keys.
RangeOrders(data) ==
    {o \in [1..Cardinality(DOMAIN data) -> DOMAIN data] :
        \A i, j \in DOMAIN o : i # j => o[i] # o[j]}

ValidationModels == {UserModel, TagModel, MemberModel, AccountModel, VaultModel}

DoValidateCreate ==
    /\ vOp = "none"
    /\ vOp' = "create"
    /\ vErr' = ValidateCreate(vModel, vData)
    /\ UNCHANGED <<vModel, vData, vOrder>>
    /\ UNCHANGED <<csVars, dbVars, parseVars>>

DoValidateUpdate ==
    /\ vOp = "none"
    /\ \E order \in RangeOrders(vData) :
          /\ vOrder' = order
          /\ vErr' = ValidateUpdate(vModel, vData, order)
    /\ vOp' = "update"
    /\ UNCHANGED <<vModel, vData>>
    /\ UNCHANGED <<csVars, dbVars, parseVars>>

\* ParseConfig has not been called.
ParseIdle ==
    /\ pIn = <<>>
    /\ pPc = "start"
    /\ pConfig = <<>>
    /\ pErr = ""
    /\ pSchema = <<>>

ValIdle ==
    /\ vModel = UserModel
    /\ vData = <<>>
    /\ vOp = "none"
    /\ vOrder = <<>>
    /\ vErr = NoError

CsIdle ==
    /\ csSchema = SchemaOf({UserModel})
    /\ csPc = "idle"
    /\ csPending = {}
    /\ csRuns = 0
    /\ csErr = ""
    /\ execLog = <<>>
    /\ tables = {}
    /\ indexes = {}

\* No table opened, no query run, no request served.
DbIdle ==
    /\ rows = {}
    /\ nextId = 1
    /\ qParams = <<>>
    /\ qRuns = <<>>
    /\ qCount = <<>>
    /\ req = <<>>
    /\ resp = <<>>
    /\ sent = <<>>

InitValidate ==
    /\ vModel \in ValidationModels
    /\ vData \in Payloads(PayloadKeys(vModel))
    /\ vOp = "none"
    /\ vOrder = <<>>
    /\ vErr = NoError
    /\ CsIdle
    /\ DbIdle
    /\ ParseIdle

NextValidate == DoValidateCreate \/ DoValidateUpdate

SpecValidate == InitValidate /\ [][NextValidate]_vars

(***************************************************************************)
(* DDL synthesizer: SQLiteDB.CreateSchema                                  *)
(***************************************************************************)
\* db.quote
quote(name) == "\"" \o name \o "\""

getSQLiteType(field) ==
    CASE field.Type \in {"id", "number", "relation"} -> "INTEGER"
      [] field.Type \in {"text", "email", "password", "phone", "url", "slug",
                         "enum", "color", "markdown", "json", "currency", "ip",
                         "uuid", "duration"} ->
            IF field.Max # NoInt /\ field.Max[1] < 255
               THEN "VARCHAR(" \o ToString(field.Max[1]) \o ")"
               ELSE "TEXT"
      [] field.Type = "boolean" -> "BOOLEAN"
      [] field.Type \in {"datetime", "date", "time"} -> "DATETIME"
      [] OTHER -> "TEXT"

\* buildColumnDefinition: the parts it joins with a space (no Field of the
\* model carries a Default).
buildColumnDefinition(field) ==
    <<quote(field.Name), getSQLiteType(field)>>
    \o (IF field.Primary
           THEN IF field.Type = "id" THEN <<"PRIMARY KEY AUTOINCREMENT">>
                                     ELSE <<"PRIMARY KEY">>
           ELSE <<>>)
    \o (IF field.Required /\ ~field.Primary THEN <<"NOT NULL">> ELSE <<>>)
    \o (IF field.Unique /\ ~field.Primary THEN <<"UNIQUE">> ELSE <<>>)

\* The table constraint createTable appends for a field, as the pieces of
\* its text; <<>> when it appends none.
ForeignKey(field) ==
    IF field.Type = "relation" /\ field.RelatedTo # ""
       THEN <<"FOREIGN KEY", "(", quote(field.Name), ")",
              "REFERENCES", quote(field.RelatedTo), "(", "id", ")">>
            \o (CASE field.OnDelete = "cascade" -> <<"ON DELETE CASCADE">>
                  [] field.OnDelete = "restrict" -> <<"ON DELETE RESTRICT">>
                  [] field.OnDelete = "set_null" -> <<"ON DELETE SET NULL">>
                  [] OTHER -> <<>>)
       ELSE <<>>

\* A CREATE TABLE without IF NOT EXISTS.
TableStmtPlain(m) == [kind |-> "table", model |-> m, name |-> m, ifNotExists |-> FALSE]

\* CREATE TABLE IF NOT EXISTS "m" (...)
TableStmt(m) == [kind |-> "table", model |-> m, name |-> m, ifNotExists |-> TRUE]

\* CREATE INDEX IF NOT EXISTS "idx_m_f" ON "m" ("f")
IndexStmt(m, f) ==
    [kind |-> "index", model |-> m, name |-> "idx_" \o m \o "_" \o f, ifNotExists |-> TRUE]

RECURSIVE IndexStmtsFrom(_, _, _)
IndexStmtsFrom(m, fields, i) ==
    IF i > Len(fields) THEN <<>>
    ELSE (IF fields[i].Index /\ ~fields[i].Primary /\ ~fields[i].Unique
             THEN <<IndexStmt(m, fields[i].Name)>>
             ELSE <<>>)
         \o IndexStmtsFrom(m, fields, i + 1)

\* The statements createIndexes(modelName, model) executes, in field order.
IndexStmts(schema, m) == IndexStmtsFrom(m, schema[m].Fields, 1)

\* The statement createTable(name, model) sends: the columns in field order,
\* then the constraints in field order.
createTable(name, model) ==
    TableStmt(name) @@
    [columns |-> [i \in 1..Len(model.Fields) |-> buildColumnDefinition(model.Fields[i])],
     constraints |->
        SelectSeq([i \in 1..Len(model.Fields) |-> ForeignKey(model.Fields[i])],
                  LAMBDA c : c # <<>>)]

\* A single loop over the models that creates each table and at once its indexes.
TablePassSinglePass(schema, m) == <<createTable(m, schema[m])>> \o IndexStmts(schema, m)

\* The statements one iteration of the first loop of CreateSchema executes.
TablePassStatements(schema, m) == <<createTable(m, schema[m])>>

\* The statements one iteration of the second loop of CreateSchema executes.
IndexPassStatements(schema, m) == IndexStmts(schema, m)

Prefix(s, n) == SubSeq(s, 1, n)

StmtNames(stmts, kind) ==
    {stmts[i].name : i \in {j \in 1..Len(stmts) : stmts[j].kind = kind}}

\* CreateSchema is entered: db.schema = schema, the first loop starts.
CreateSchemaBegin ==
    /\ csPc \in {"idle", "done", "failed"}
    /\ csRuns < MaxRuns
    /\ csRuns' = csRuns + 1
    /\ csPc' = "tables"
    /\ csPending' = DOMAIN csSchema
    /\ csErr' = ""
    /\ execLog' = <<>>
    /\ UNCHANGED <<csSchema, tables, indexes>>
    /\ UNCHANGED <<valVars, dbVars, parseVars>>

\* The errors db.conn can return whatever the statement is.
ConnErrors == {"disk I/O error"}

\* The store refuses a CREATE of an object that exists unless the statement
\* says IF NOT EXISTS.
AlreadyExists(stmt) ==
    /\ ~stmt.ifNotExists
    /\ stmt.name \in (IF stmt.kind = "table" THEN tables ELSE indexes)

\* Executes the first n of stmts; when n < Len(stmts) the next one is sent
\* and fails, because its object exists or because db.conn.Exec failed.
ExecStatements(stmts, n) ==
    /\ \A k \in 1..n : ~AlreadyExists(stmts[k])
    /\ execLog' = execLog \o Prefix(stmts, IF n < Len(stmts) THEN n + 1 ELSE n)
    /\ tables' = tables \cup StmtNames(Prefix(stmts, n), "table")
    /\ indexes' = indexes \cup StmtNames(Prefix(stmts, n), "index")
    /\ csErr' \in (IF n = Len(stmts) THEN {csErr}
                    ELSE IF AlreadyExists(stmts[n + 1]) THEN {"already exists"}
                    ELSE ConnErrors)

\* One iteration of the first loop: createTable for a model the range has not
\* yielded yet (Go map iteration order is unspecified).
CreateTableStep(m) ==
    /\ csPc = "tables"
    /\ m \in csPending
    /\ LET stmts == TablePassStatements(csSchema, m) IN
       \E n \in 0..Len(stmts) :
          /\ ExecStatements(stmts, n)
          /\ IF n < Len(stmts)
                THEN /\ csPc' = "failed"
                     /\ csPending' = {}
                ELSE IF csPending = {m}
                        THEN /\ csPc' = "indexes"
                             /\ csPending' = DOMAIN csSchema
                        ELSE /\ csPc' = "tables"
                             /\ csPending' = csPending \ {m}
    /\ UNCHANGED <<csSchema, csRuns>>
    /\ UNCHANGED <<valVars, dbVars, parseVars>>

\* One iteration of the second loop: createIndexes for a model.
CreateIndexesStep(m) ==
    /\ csPc = "indexes"
    /\ m \in csPending
    /\ LET stmts == IndexPassStatements(csSchema, m) IN
       \E n \in 0..Len(stmts) :
          /\ ExecStatements(stmts, n)
          /\ IF n < Len(stmts)
                THEN /\ csPc' = "failed"
                     /\ csPending' = {}
                ELSE IF csPending = {m}
                        THEN /\ csPc' = "done"
                             /\ csPending' = {}
                        ELSE /\ csPc' = "indexes"
                             /\ csPending' = csPending \ {m}
    /\ UNCHANGED <<csSchema, csRuns>>
    /\ UNCHANGED <<valVars, dbVars, parseVars>>

CsInit ==
    /\ csSchema \in Schemas
    /\ csPc = "idle"
    /\ csPending = {}
    /\ csRuns = 0
    /\ csErr = ""
    /\ execLog = <<>>
    /\ tables = {}
    /\ indexes = {}

InitSchema == CsInit /\ ValIdle /\ DbIdle /\ ParseIdle

NextSchema ==
    \/ CreateSchemaBegin
    \/ \E m \in DOMAIN csSchema : CreateTableStep(m)
    \/ \E m \in DOMAIN csSchema : CreateIndexesStep(m)

SpecSchema == InitSchema /\ [][NextSchema]_vars

(***************************************************************************)
(* C1                                                                      *)
(***************************************************************************)
\* C1: within one CreateSchema call, every CREATE INDEX statement is executed
\* only after the CREATE TABLE statement of every Model of the Schema, and no
\* CREATE TABLE follows a CREATE INDEX.
C1_TablesBeforeIndexes ==
    \A i \in 1..Len(execLog) :
        execLog[i].kind = "index" =>
            /\ \A m \in DOMAIN csSchema :
                  \E j \in 1..(i - 1) : (execLog[j].kind = "table" /\ execLog[j].name = m)
            /\ \A j \in (i + 1)..Len(execLog) : execLog[j].kind # "table"

\* A completed call on a schema of several models that created an index on a
\* model whose table was not the last one created.
C1_Witness ==
    /\ csPc = "done"
    /\ Cardinality(DOMAIN csSchema) >= 2
    /\ \E i, j \in 1..Len(execLog) :
          /\ execLog[i].kind = "index"
          /\ execLog[j].kind = "table"
          /\ execLog[j].model # execLog[i].model
          /\ \E k \in 1..(j - 1) : (execLog[k].kind = "table" /\ execLog[k].name = execLog[i].model)

(***************************************************************************)
(* The rules of the Model a payload is held against (C6 - C9)              *)
(***************************************************************************)
OptionSet(field) == {field.Options[i] : i \in 1..Len(field.Options)}

EmailAddresses == {"a@b.co"}
HttpURLs == {"http://x.y"}
PatternLanguage(pattern) == IF pattern = "^a" THEN {"ab", "a@b.co"} ELSE {}

\* The per-type rule of a field for a non-nil value.
WellFormed(field, value) ==
    CASE field.Type \in {"text", "password"} ->
            /\ value.k = "str"
            /\ field.Min # NoInt => Len(value.s) >= field.Min[1]
            /\ field.Max # NoInt => Len(value.s) <= field.Max[1]
            /\ field.Pattern # "" => value.s \in PatternLanguage(field.Pattern)
      [] field.Type = "number" ->
            /\ value.k = "num"
            /\ field.Min # NoInt => value.n >= field.Min[1]
            /\ field.Max # NoInt => value.n <= field.Max[1]
      [] field.Type = "boolean" -> value.k = "bool"
      [] field.Type = "email" -> value.k = "str" /\ value.s \in EmailAddresses
      [] field.Type = "url" -> value.k = "str" /\ value.s \in HttpURLs
      [] field.Type = "enum" -> value.k = "str" /\ value.s \in OptionSet(field)
      [] field.Type \in {"datetime", "date", "time"} -> value.k = "str"
      [] OTHER -> TRUE

\* The rule of a field for a value: nil fails only when required and not nullable.
Accepts(field, value) ==
    IF value = Nil THEN field.Nullable \/ ~field.Required
                   ELSE WellFormed(field, value)

FieldNamed(model, name) ==
    CHOOSE f \in {model.Fields[i] : i \in 1..Len(model.Fields)} : f.Name = name

Unconstrained(field) ==
    /\ field.Min = NoInt /\ field.Max = NoInt /\ field.Pattern = ""
    /\ field.Type \notin {"email", "url", "enum"}

\* The field breaks a rule on create, the fields in exempt being left out.
BreaksOnCreate(field, data, exempt) ==
    /\ field \notin exempt
    /\ \/ field.Required /\ field.Name \notin DOMAIN data
       \/ field.Name \in DOMAIN data /\ ~Accepts(field, data[field.Name])

\* The payload entry breaks a rule on update.
BreaksOnUpdate(model, data, key) ==
    \/ key \notin FieldNames(model)
    \/ FieldNamed(model, key).Primary
    \/ ~Accepts(FieldNamed(model, key), data[key])

FieldSet(model) == {model.Fields[i] : i \in 1..Len(model.Fields)}
PrimaryFields(model) == {f \in FieldSet(model) : f.Primary}
IdentifierFields(model) == {f \in FieldSet(model) : f.Primary /\ f.Type = "id"}

\* C6: ValidateUpdate on a payload that contains the primary-key field fails
\* with the error "cannot update primary key", whatever else the payload holds.
C6_PrimaryKeyErrorAlways ==
    (vOp = "update" /\ \E f \in PrimaryFields(vModel) : f.Name \in DOMAIN vData)
        => (~vErr.ok /\ vErr.Message = "cannot update primary key")

\* C7 as stated: ValidateCreate fails iff some required non-primary field is
\* absent or some non-primary field fails its rule.
C7_FailsIffNonPrimaryBroken ==
    vOp = "create" =>
        (~vErr.ok <=> \E f \in FieldSet(vModel) :
                          BreaksOnCreate(f, vData, PrimaryFields(vModel)))

\* C7 amended: ValidateCreate fails iff some field other than the id-typed
\* primary field is required and absent, or is present and fails its rule; a
\* present, well-formed field without declared constraints is never the one
\* the error names.
C7_FailsIffNonIdentifierBroken ==
    vOp = "create" =>
        /\ ~vErr.ok <=> \E f \in FieldSet(vModel) :
                           BreaksOnCreate(f, vData, IdentifierFields(vModel))
        /\ \A f \in FieldSet(vModel) :
              (/\ f.Name \in DOMAIN vData
               /\ Unconstrained(f)
               /\ vData[f.Name] # Nil
               /\ WellFormed(f, vData[f.Name]))
                  => (vErr.ok \/ vErr.Field # f.Name)

\* A create rejected because the primary key, which is not of the id type, is
\* absent while every other field is present and well-formed.
C7_Witness ==
    /\ vOp = "create"
    /\ ~vErr.ok
    /\ vModel = TagModel
    /\ "slug" \notin DOMAIN vData
    /\ "label" \in DOMAIN vData
    /\ \A f \in FieldSet(vModel) :
          f.Name \in DOMAIN vData => Accepts(f, vData[f.Name])

\* C8: ValidateUpdate rejects the payload iff some key is not a field of the
\* Model, names the primary key, or carries a value that fails the rule of its
\* field; absent required fields never make it fail.
C8_UpdateChecksPresentOnly ==
    vOp = "update" =>
        (~vErr.ok <=> \E key \in DOMAIN vData : BreaksOnUpdate(vModel, vData, key))

\* An accepted update of two columns that leaves a required field out.
C8_Witness ==
    /\ vOp = "update"
    /\ vErr.ok
    /\ Cardinality(DOMAIN vData) = 2
    /\ \E f \in FieldSet(vModel) :
          f.Required /\ ~f.Primary /\ f.Name \notin DOMAIN vData

\* C9: a failing ValidateCreate / ValidateUpdate returns one structured error
\* that names a field which really breaks a rule of the Model for the payload,
\* and that field is the first failing one in the order the loop visited them.
C9_FirstRealViolation ==
    /\ (vOp = "create" /\ ~vErr.ok) =>
          /\ vErr.Field # "" /\ vErr.Message # ""
          /\ vErr.at \in 1..Len(vModel.Fields)
          /\ vModel.Fields[vErr.at].Name = vErr.Field
          /\ BreaksOnCreate(vModel.Fields[vErr.at], vData, IdentifierFields(vModel))
          /\ \A j \in 1..(vErr.at - 1) :
                ~BreaksOnCreate(vModel.Fields[j], vData, IdentifierFields(vModel))
    /\ (vOp = "update" /\ ~vErr.ok) =>
          /\ vErr.Field # "" /\ vErr.Message # ""
          /\ vErr.at \in 1..Len(vOrder)
          /\ vOrder[vErr.at] = vErr.Field
          /\ BreaksOnUpdate(vModel, vData, vErr.Field)
          /\ \A j \in 1..(vErr.at - 1) : ~BreaksOnUpdate(vModel, vData, vOrder[j])
    /\ (vOp = "create" /\ vModel = UserModel
            /\ vData = [k \in {"age"} |-> Num(200)]) =>
          (~vErr.ok /\ vErr.Field \in {"name", "age"})

\* create {age: 200} on the User model has been rejected.
C9_Witness ==
    /\ vOp = "create"
    /\ vModel = UserModel
    /\ vData = [k \in {"age"} |-> Num(200)]
    /\ ~vErr.ok

(***************************************************************************)
(* Query compiler: parser.QueryParams, SQL text and bound arguments        *)
(***************************************************************************)
\* []any as a filter value.
List(items) == [k |-> "list", items |-> items]

Filter(field, operator, value) ==
    [Field |-> field, Operator |-> operator, Value |-> value]

SortField(field, desc) == [Field |-> field, Desc |-> desc]

QueryParams(page, pageSize, sort, filters, search) ==
    [Page |-> page, PageSize |-> pageSize, Sort |-> sort,
     Filters |-> filters, Search |-> search]

\* A query string and its args. The string is kept as the sequence of its
\* lexical pieces, in the order the code concatenates them.
Statement(sql, args) == [sql |-> sql, args |-> args]

RECURSIVE SprintItems(_, _)
\* fmt.Sprint of a value.
Sprint(value) ==
    CASE value.k = "str" -> value.s
      [] value.k = "num" -> ToString(value.n)
      [] value.k = "bool" -> IF value.b THEN "true" ELSE "false"
      [] value.k = "nil" -> "<nil>"
      [] value.k = "list" -> "[" \o SprintItems(value.items, 1) \o "]"

SprintItems(items, i) ==
    IF i > Len(items) THEN ""
    ELSE Sprint(items[i]) \o (IF i < Len(items) THEN " " ELSE "")
         \o SprintItems(items, i + 1)

RECURSIVE JoinFrom(_, _, _)
JoinFrom(pieces, sep, i) ==
    IF i > Len(pieces) THEN <<>>
    ELSE pieces[i] \o (IF i < Len(pieces) THEN <<sep>> ELSE <<>>)
         \o JoinFrom(pieces, sep, i + 1)

\* strings.Join over pieces that are themselves runs of lexical pieces.
Join(pieces, sep) == JoinFrom(pieces, sep, 1)

\* buildWhereClause: the clause, its arg, and whether the type assertion of
\* the "in" branch panicked.
buildWhereClause(filter) ==
    LET operator == IF filter.Operator = "" THEN "=" ELSE filter.Operator IN
    CASE operator = "like" ->
            [clause |-> <<quote(filter.Field), "LIKE", "?">>,
             arg |-> Str("%" \o Sprint(filter.Value) \o "%"), panic |-> FALSE]
      [] operator = "in" ->
            IF filter.Value.k # "list"
               THEN [clause |-> <<>>, arg |-> Nil, panic |-> TRUE]
               ELSE [clause |-> <<quote(filter.Field), "IN", "(">>
                                \o Join([i \in 1..Len(filter.Value.items) |-> <<"?">>], ",")
                                \o <<")">>,
                     arg |-> filter.Value, panic |-> FALSE]
      [] OTHER ->
            [clause |-> <<quote(filter.Field), operator, "?">>,
             arg |-> filter.Value, panic |-> FALSE]

\* The WHERE part shared by buildSelectQuery and Count.
WherePart(filters) ==
    IF Len(filters) > 0
       THEN <<"WHERE">>
            \o Join([i \in 1..Len(filters) |-> buildWhereClause(filters[i]).clause], "AND")
       ELSE <<>>

WhereArgs(filters) == [i \in 1..Len(filters) |-> buildWhereClause(filters[i]).arg]

WherePanics(filters) == \E i \in 1..Len(filters) : buildWhereClause(filters[i]).panic

\* UI.List.Searchable of the model when the search branch is taken, else none.
SearchColumns(schema, model, params) ==
    IF params.Search # "" /\ model \in DOMAIN schema
       THEN schema[model].Searchable
       ELSE <<>>

\* An ORDER BY that is left out when no sort field is given.
OrderPartWithoutFallback(params) ==
    IF Len(params.Sort) > 0
       THEN <<"ORDER BY">>
            \o Join([i \in 1..Len(params.Sort) |->
                       <<quote(params.Sort[i].Field),
                         IF params.Sort[i].Desc THEN "DESC" ELSE "ASC">>], ",")
       ELSE <<>>

OrderPart(params) ==
    IF Len(params.Sort) > 0
       THEN <<"ORDER BY">>
            \o Join([i \in 1..Len(params.Sort) |->
                       <<quote(params.Sort[i].Field),
                         IF params.Sort[i].Desc THEN "DESC" ELSE "ASC">>], ",")
       ELSE <<"ORDER BY", quote("id"), "DESC">>

\* A LIMIT/OFFSET whose offset counts pages from zero.
LimitPartFromPageZero(params) ==
    IF params.PageSize > 0
       THEN <<"LIMIT", ToString(params.PageSize),
              "OFFSET", ToString(params.Page * params.PageSize)>>
       ELSE <<>>

LimitPart(params) ==
    IF params.PageSize > 0
       THEN <<"LIMIT", ToString(params.PageSize),
              "OFFSET", ToString((params.Page - 1) * params.PageSize)>>
       ELSE <<>>

\* A SELECT whose search clauses follow the filters without parentheses.
buildSelectQueryUngrouped(schema, model, params) ==
    LET searchable == SearchColumns(schema, model, params)
        searchClauses == [i \in 1..Len(searchable) |-> <<quote(searchable[i]), "LIKE", "?">>]
        searchArgs == [i \in 1..Len(searchable) |-> Str("%" \o params.Search \o "%")]
        searchPart ==
            IF Len(searchable) = 0 THEN <<>>
            ELSE IF Len(params.Filters) > 0
                    THEN <<"AND">> \o Join(searchClauses, "OR")
                    ELSE <<"WHERE">> \o Join(searchClauses, "OR")
    IN Statement(<<"SELECT * FROM", quote(model)>> \o WherePart(params.Filters)
                    \o searchPart \o OrderPart(params) \o LimitPart(params),
                 WhereArgs(params.Filters) \o searchArgs)

\* SQLiteDB.buildSelectQuery; schema is db.schema.
buildSelectQuery(schema, model, params) ==
    LET searchable == SearchColumns(schema, model, params)
        searchClauses == [i \in 1..Len(searchable) |-> <<quote(searchable[i]), "LIKE", "?">>]
        searchArgs == [i \in 1..Len(searchable) |-> Str("%" \o params.Search \o "%")]
        searchPart ==
            IF Len(searchable) = 0 THEN <<>>
            ELSE IF Len(params.Filters) > 0
                    THEN <<"AND", "(">> \o Join(searchClauses, "OR") \o <<")">>
                    ELSE <<"WHERE">> \o Join(searchClauses, "OR")
    IN Statement(<<"SELECT * FROM", quote(model)>> \o WherePart(params.Filters)
                    \o searchPart \o OrderPart(params) \o LimitPart(params),
                 WhereArgs(params.Filters) \o searchArgs)

\* The queries of SQLiteDB.Get, DB.buildInsertQuery, DB.buildUpdateQuery and
\* DB.buildDeleteQuery; order is the order in which the range over data
\* yielded its keys.
getQuery(model, id) ==
    Statement(<<"SELECT * FROM", quote(model), "WHERE", "id", "=", "?">>, <<id>>)

buildInsertQuery(model, data, order) ==
    Statement(<<"INSERT INTO", quote(model), "(">>
                 \o Join([i \in 1..Len(order) |-> <<quote(order[i])>>], ",")
                 \o <<")", "VALUES", "(">>
                 \o Join([i \in 1..Len(order) |-> <<"?">>], ",")
                 \o <<")">>,
              [i \in 1..Len(order) |-> data[order[i]]])

\* An UPDATE compiled with the id bound first.
buildUpdateQueryIdFirst(model, id, data, order) ==
    Statement(<<"UPDATE", quote(model), "SET">>
                 \o Join([i \in 1..Len(order) |-> <<quote(order[i]), "=", "?">>], ",")
                 \o <<"WHERE", "id", "=", "?">>,
              <<id>> \o [i \in 1..Len(order) |-> data[order[i]]])

buildUpdateQuery(model, id, data, order) ==
    Statement(<<"UPDATE", quote(model), "SET">>
                 \o Join([i \in 1..Len(order) |-> <<quote(order[i]), "=", "?">>], ",")
                 \o <<"WHERE", "id", "=", "?">>,
              [i \in 1..Len(order) |-> data[order[i]]] \o <<id>>)

buildDeleteQuery(model, id) ==
    Statement(<<"DELETE FROM", quote(model), "WHERE", "id", "=", "?">>, <<id>>)

\* strings.ToLower on the model names of the catalog.
ToLower(s) ==
    CASE s = "Item" -> "item"
      [] s = "User" -> "user"
      [] s = "Post" -> "post"
      [] s = "Tag" -> "tag"
      [] OTHER -> s

\* A count that leaves the filters out.
countQueryUnfiltered(model, filters) ==
    Statement(<<"SELECT COUNT(*) FROM", quote(ToLower(model))>>, <<>>)

\* The query SQLiteDB.Count builds.
countQuery(model, filters) ==
    Statement(<<"SELECT COUNT(*) FROM", quote(ToLower(model))>> \o WherePart(filters),
              WhereArgs(filters))

(***************************************************************************)
(* The store: SQLite behind db.conn, executing a statement over one table  *)
(***************************************************************************)
\* A table is the Model it was created from and its rows; a row maps every
\* column to a value.
Table(model, tableRows) == [model |-> model, rows |-> tableRows]

Columns(table) == FieldNames(table.model)

\* Column affinity of the type getSQLiteType declares.
Affinity(field) ==
    CASE field.Type \in {"id", "number", "relation"} -> "INTEGER"
      [] field.Type \in {"boolean", "datetime", "date", "time"} -> "NUMERIC"
      [] OTHER -> "TEXT"

ColumnAffinity(table, col) ==
    LET i == CHOOSE j \in 1..Len(table.model.Fields) : table.model.Fields[j].Name = col
    IN Affinity(table.model.Fields[i])

\* Text that converts to a number, and the conversion of a value to an affinity.
NumericText(s) == \E n \in Numbers \cup {0, 1, 2, 3} : ToString(n) = s

ApplyAffinity(aff, v) ==
    CASE v.k = "bool" -> Num(IF v.b THEN 1 ELSE 0)
      [] v.k = "str" /\ aff \in {"INTEGER", "NUMERIC"} /\ NumericText(v.s) ->
            Num(CHOOSE n \in Numbers \cup {0, 1, 2, 3} : ToString(n) = v.s)
      [] v.k = "num" /\ aff = "TEXT" -> Str(ToString(v.n))
      [] OTHER -> v

\* BINARY collation over the text the model can compare.
Collation ==
    <<"", "-1", "0", "1", "2", "200", "3", "5", "<nil>", "a", "a@b.co", "ab",
      "bogus", "http://x.y", "id", "name", "qty", "true">>

StrRank(s) == CHOOSE i \in 1..Len(Collation) : Collation[i] = s

\* Comparison of two non-NULL values: numbers sort before text.
Less(a, b) ==
    CASE a.k = "num" /\ b.k = "num" -> a.n < b.n
      [] a.k = "str" /\ b.k = "str" -> StrRank(a.s) < StrRank(b.s)
      [] OTHER -> a.k = "num" /\ b.k = "str"

\* text LIKE pattern, pattern being %needle% or a plain string.
Needles == Strings \cup {"a", "5", "200", "-1", "<nil>", "true"}

Contains(text, needle) ==
    \/ needle = ""
    \/ text = needle
    \/ <<text, needle>> \in {<<"ab", "a">>, <<"a@b.co", "a">>}

LikeMatch(text, pattern) ==
    IF \E n \in Needles : "%" \o n \o "%" = pattern
       THEN Contains(text, CHOOSE n \in Needles : "%" \o n \o "%" = pattern)
       ELSE text = pattern

\* The comparison operators of the dialect the compiler can reach.
SQLOperators == {"=", "!=", "<>", "<", "<=", ">", ">=", "LIKE", "GLOB", "IN"}

\* Names a double-quoted token can carry.
Identifiers == {"id", "name", "qty", "bogus", "Item", "item"}

\* What an identifier token denotes in a row: a column, or, when the token
\* is double-quoted, names no column and the build accepts double-quoted
\* string literals (dqs), the string between the quotes.
Operand(table, row, tok, dqs) ==
    IF tok \in Columns(table)
       THEN [ok |-> TRUE, v |-> row[tok], aff |-> ColumnAffinity(table, tok)]
    ELSE IF \E c \in Columns(table) : quote(c) = tok
       THEN LET c == CHOOSE c \in Columns(table) : quote(c) = tok
            IN [ok |-> TRUE, v |-> row[c], aff |-> ColumnAffinity(table, c)]
    ELSE IF dqs /\ \E n \in Identifiers : quote(n) = tok
       THEN [ok |-> TRUE, v |-> Str(CHOOSE n \in Identifiers : quote(n) = tok),
             aff |-> "NONE"]
    ELSE [ok |-> FALSE, v |-> Nil, aff |-> "NONE"]

\* ---- parsing of a WHERE expression ----
BadItem == [t |-> "bad", col |-> "", op |-> "", ph |-> 0, n |-> 0, items |-> <<>>]
Connective(tok) == [BadItem EXCEPT !.t = tok]
Cond(col, op, ph, n) == [BadItem EXCEPT !.t = "cond", !.col = col, !.op = op, !.ph = ph, !.n = n]
Group(items) == [BadItem EXCEPT !.t = "group", !.items = items]

CountPh(toks) == Cardinality({i \in 1..Len(toks) : toks[i] = "?"})

\* Position of the first tok after position i, 0 when there is none.
FirstAfter(toks, tok, i) ==
    IF \E j \in (i + 1)..Len(toks) : toks[j] = tok
       THEN CHOOSE j \in (i + 1)..Len(toks) :
               /\ toks[j] = tok
               /\ \A k \in (i + 1)..(j - 1) : toks[k] # tok
       ELSE 0

RECURSIVE ParseItems(_, _, _)
\* The conditions, groups and connectives of toks from position i on; ph is
\* the number of placeholders to the left.
ParseItems(toks, i, ph) ==
    IF i > Len(toks) THEN <<>>
    ELSE IF toks[i] \in {"AND", "OR"}
       THEN <<Connective(toks[i])>> \o ParseItems(toks, i + 1, ph)
    ELSE IF toks[i] = "("
       THEN LET j == FirstAfter(toks, ")", i) IN
            IF j = 0 THEN <<BadItem>>
            ELSE <<Group(ParseItems(SubSeq(toks, i + 1, j - 1), 1, ph))>>
                 \o ParseItems(toks, j + 1, ph + CountPh(SubSeq(toks, i + 1, j - 1)))
    ELSE IF i + 2 > Len(toks) THEN <<BadItem>>
    ELSE IF toks[i + 1] = "IN"
       THEN LET j == FirstAfter(toks, ")", i + 2) IN
            IF toks[i + 2] # "(" \/ j = 0 THEN <<BadItem>>
            ELSE <<Cond(toks[i], "IN", ph, CountPh(SubSeq(toks, i + 3, j - 1)))>>
                 \o ParseItems(toks, j + 1, ph + CountPh(SubSeq(toks, i + 3, j - 1)))
    ELSE IF toks[i + 2] = "?"
       THEN <<Cond(toks[i], toks[i + 1], ph, 1)>> \o ParseItems(toks, i + 3, ph + 1)
    ELSE <<BadItem>>

RECURSIVE ItemsOK(_, _, _)
\* The items form a syntactically valid expression whose operands resolve.
ItemsOK(table, items, dqs) ==
    /\ Len(items) % 2 = 1
    /\ \A i \in 1..Len(items) :
          IF i % 2 = 0 THEN items[i].t \in {"AND", "OR"}
          ELSE \/ /\ items[i].t = "cond"
                  /\ items[i].op \in SQLOperators
                  /\ Operand(table, [c \in Columns(table) |-> Nil], items[i].col, dqs).ok
               \/ /\ items[i].t = "group"
                  /\ ItemsOK(table, items[i].items, dqs)

\* One condition on one row, NULL counting as not true.
EvalCond(table, row, args, item, dqs) ==
    LET lhs == Operand(table, row, item.col, dqs)
        rhs(k) == ApplyAffinity(lhs.aff, args[item.ph + k])
        text(v) == ApplyAffinity("TEXT", v).s
    IN IF lhs.v = Nil THEN FALSE
       ELSE CASE item.op = "IN" ->
                    \E k \in 1..item.n : rhs(k) # Nil /\ rhs(k) = lhs.v
              [] rhs(1) = Nil -> FALSE
              [] item.op = "=" -> lhs.v = rhs(1)
              [] item.op \in {"!=", "<>"} -> lhs.v # rhs(1)
              [] item.op = "<" -> Less(lhs.v, rhs(1))
              [] item.op = "<=" -> ~Less(rhs(1), lhs.v)
              [] item.op = ">" -> Less(rhs(1), lhs.v)
              [] item.op = ">=" -> ~Less(lhs.v, rhs(1))
              [] item.op = "LIKE" -> LikeMatch(text(lhs.v), text(args[item.ph + 1]))
              [] item.op = "GLOB" -> text(lhs.v) = text(args[item.ph + 1])

RECURSIVE EvalItems(_, _, _, _, _, _, _)
\* items from position i on, AND binding tighter than OR; acc is the value
\* of the conjunction being read.
EvalItems(table, row, args, items, dqs, i, acc) ==
    IF i > Len(items) THEN acc
    ELSE IF items[i].t = "OR"
       THEN acc \/ EvalItems(table, row, args, items, dqs, i + 1, TRUE)
    ELSE IF items[i].t = "AND"
       THEN EvalItems(table, row, args, items, dqs, i + 1, acc)
    ELSE IF items[i].t = "group"
       THEN EvalItems(table, row, args, items, dqs, i + 1,
                      acc /\ EvalItems(table, row, args, items[i].items, dqs, 1, TRUE))
    ELSE EvalItems(table, row, args, items, dqs, i + 1,
                   acc /\ EvalCond(table, row, args, items[i], dqs))

\* ---- SELECT ----
\* The pieces of a SELECT: where the WHERE, ORDER BY and LIMIT parts start
\* (0 when absent) and the runs of pieces between them.
SelectShape(sql) ==
    LET w == FirstAfter(sql, "WHERE", 0)
        o == FirstAfter(sql, "ORDER BY", 0)
        l == FirstAfter(sql, "LIMIT", 0)
        endWhere == IF o > 0 THEN o - 1 ELSE IF l > 0 THEN l - 1 ELSE Len(sql)
        endOrder == IF l > 0 THEN l - 1 ELSE Len(sql)
    IN [where |-> IF w > 0 THEN SubSeq(sql, w + 1, endWhere) ELSE <<>>,
        hasWhere |-> w > 0,
        order |-> IF o > 0 THEN SubSeq(sql, o + 1, endOrder) ELSE <<>>,
        hasOrder |-> o > 0,
        limit |-> IF l > 0 THEN SubSeq(sql, l + 1, Len(sql)) ELSE <<>>,
        hasLimit |-> l > 0,
        head |-> IF w > 0 THEN w - 1 ELSE IF o > 0 THEN o - 1
                 ELSE IF l > 0 THEN l - 1 ELSE Len(sql)]

\* ORDER BY terms: every third piece is a comma.
OrderTerms(order) ==
    [i \in 1..((Len(order) + 1) \div 3) |->
        [col |-> order[3 * i - 2], desc |-> order[3 * i - 1] = "DESC"]]

OrderOK(table, order, dqs) ==
    /\ Len(order) % 3 = 2
    /\ \A i \in 1..Len(order) :
          CASE i % 3 = 1 -> Operand(table, [c \in Columns(table) |-> Nil], order[i], dqs).ok
            [] i % 3 = 2 -> order[i] \in {"ASC", "DESC"}
            [] OTHER -> order[i] = ","

\* A number piece reads as the integer it prints.
Literals == -4..20
IsInteger(tok) == \E n \in Literals : ToString(n) = tok
IntegerOf(tok) == CHOOSE n \in Literals : ToString(n) = tok

LimitOK(limit) ==
    /\ Len(limit) = 3
    /\ IsInteger(limit[1])
    /\ limit[2] = "OFFSET"
    /\ IsInteger(limit[3])

RECURSIVE Before(_, _, _, _, _, _)
\* Row a sorts strictly before row b under the terms from position i on;
\* NULL sorts first.
Before(table, terms, dqs, a, b, i) ==
    IF i > Len(terms) THEN FALSE
    ELSE LET x == Operand(table, a, terms[i].col, dqs).v
             y == Operand(table, b, terms[i].col, dqs).v
             lt == (x = Nil /\ y # Nil) \/ (x # Nil /\ y # Nil /\ Less(x, y))
             gt == (y = Nil /\ x # Nil) \/ (x # Nil /\ y # Nil /\ Less(y, x))
         IN IF lt THEN ~terms[i].desc
            ELSE IF gt THEN terms[i].desc
            ELSE Before(table, terms, dqs, a, b, i + 1)

\* Every arrangement of a set of rows.
Arrangements(S) ==
    {o \in [1..Cardinality(S) -> S] : \A i, j \in DOMAIN o : i # j => o[i] # o[j]}

\* The arrangements ORDER BY allows: rows the terms do not tell apart may
\* come in any order.
Sorted(table, terms, dqs, S) ==
    {o \in Arrangements(S) :
        \A i, j \in DOMAIN o : i < j => ~Before(table, terms, dqs, o[j], o[i], 1)}

\* LIMIT n OFFSET m over a result; a negative limit is no limit, a negative
\* offset is no offset.
Window(result, limit, offset) ==
    LET from == (IF offset < 0 THEN 0 ELSE offset) + 1
        to == IF limit < 0 \/ from + limit - 1 > Len(result)
                 THEN Len(result) ELSE from + limit - 1
    IN SubSeq(result, from, to)

\* Arguments database/sql can bind: no slices, and one per placeholder.
Bindable(stmt) ==
    /\ \A i \in 1..Len(stmt.args) : stmt.args[i].k # "list"
    /\ Len(stmt.args) = CountPh(stmt.sql)

\* Table names match without regard to case.
TableNamed(table, tok) ==
    \E n \in Identifiers : quote(n) = tok /\ ToLower(n) = ToLower(table.model.Name)

Failed(message) == [err |-> message, rows |-> <<>>]
Returned(result) == [err |-> "", rows |-> result]

\* The outcomes db.conn.Query can have for a SELECT * statement.
ExecSelect(table, stmt, dqs) ==
    LET shape == SelectShape(stmt.sql)
        items == ParseItems(shape.where, 1, 0)
        terms == OrderTerms(shape.order)
    IN IF ~Bindable(stmt) THEN {Failed("bind")}
       ELSE IF \/ shape.head # 2
               \/ stmt.sql[1] # "SELECT * FROM"
               \/ (shape.hasWhere /\ ~ItemsOK(table, items, dqs))
               \/ (shape.hasOrder /\ ~OrderOK(table, shape.order, dqs))
               \/ (shape.hasLimit /\ ~LimitOK(shape.limit))
          THEN {Failed("syntax")}
       ELSE IF ~TableNamed(table, stmt.sql[2]) THEN {Failed("no such table")}
       ELSE LET hits == {r \in table.rows :
                           EvalItems(table, r, stmt.args, items, dqs, 1, TRUE)}
            IN {Returned(IF shape.hasLimit
                            THEN Window(o, IntegerOf(shape.limit[1]), IntegerOf(shape.limit[3]))
                            ELSE o) :
                  o \in Sorted(table, terms, dqs, hits)}

(***************************************************************************)
(* SQLiteDB.Query over a table with known rows                             *)
(***************************************************************************)
ItemModel ==
    Model("Item",
          << IdField,
             [Field("name", "text") EXCEPT !.Required = TRUE, !.Index = TRUE,
                                           !.Max = SomeInt(8)],
             [Field("qty", "number") EXCEPT !.Min = SomeInt(0)] >>,
          <<"name", "qty">>)

\* db.schema after CreateSchema.
StoreSchema == SchemaOf({ItemModel})

\* CreateSchema(StoreSchema) has returned nil.
StoreReady ==
    LET stmts == TablePassStatements(StoreSchema, "Item")
                 \o IndexPassStatements(StoreSchema, "Item")
    IN /\ csSchema = StoreSchema
       /\ csPc = "done"
       /\ csPending = {}
       /\ csRuns = 1
       /\ csErr = ""
       /\ execLog = stmts
       /\ tables = StmtNames(stmts, "table")
       /\ indexes = StmtNames(stmts, "index")

\* Rows the table can hold after creates, updates and deletes.
Row(id, name, qty) == [id |-> Num(id), name |-> name, qty |-> qty]

RowContents ==
    { [name |-> Str("ab"), qty |-> Num(5)],
      [name |-> Str("ab"), qty |-> Nil],
      [name |-> Str("a@b.co"), qty |-> Num(5)] }

RowsWithIds(ids) ==
    {{Row(id, pick[id].name, pick[id].qty) : id \in ids} : pick \in [ids -> RowContents]}

StoredRows == UNION {RowsWithIds(1..n) : n \in 0..MaxRows}

\* The QueryParams a caller of SQLiteDB.Query hands in, Page left open.
FilterLists ==
    { <<>>,
      <<Filter("name", "=", Str("ab"))>>,
      <<Filter("qty", "", Str("5"))>>,
      <<Filter("name", "like", Str("a"))>>,
      <<Filter("id", "in", List(<<Num(1), Num(2)>>))>>,
      <<Filter("name", "in", Str("ab"))>>,
      <<Filter("name", "bogus", Str("ab"))>>,
      <<Filter("name", "GLOB", Str("ab"))>>,
      <<Filter("bogus", "=", Str("ab"))>>,
      <<Filter("name", "!=", Str("ab")), Filter("id", ">", Num(1))>> }

Sorts ==
    { <<>>,
      <<SortField("name", FALSE)>>,
      <<SortField("qty", TRUE), SortField("id", FALSE)>>,
      <<SortField("bogus", FALSE)>> }

Searches == {"", "5"}

PageSizes == {1, 2}

QueryBases ==
    {QueryParams(0, n, sort, filters, search) :
        n \in PageSizes, sort \in Sorts, filters \in FilterLists, search \in Searches}

\* The three calls under study: page 1, page 2, and PageSize 0 (no LIMIT).
Slots == {"page1", "page2", "all"}

ParamsOf(base, slot) ==
    CASE slot = "page1" -> [base EXCEPT !.Page = 1]
      [] slot = "page2" -> [base EXCEPT !.Page = 2]
      [] slot = "all" -> [base EXCEPT !.Page = 1, !.PageSize = 0]

NotRun == [state |-> "not run", sent |-> <<>>, err |-> "", rows |-> <<>>]

\* SQLiteDB.Query: its outcomes, with the statements it handed to db.conn.
Query(table, model, params, dqs) ==
    IF WherePanics(params.Filters)
       THEN {[state |-> "panic", sent |-> <<>>, err |-> "", rows |-> <<>>]}
       ELSE LET stmt == buildSelectQuery(StoreSchema, model, params) IN
            {[state |-> "returned", sent |-> <<stmt>>, err |-> r.err, rows |-> r.rows] :
                r \in ExecSelect(table, stmt, dqs)}

DbQuery(slot) ==
    /\ qRuns[slot] = NotRun
    /\ \E dqs \in BOOLEAN :
       \E outcome \in Query(Table(ItemModel, rows), "Item", ParamsOf(qParams, slot), dqs) :
          qRuns' = [qRuns EXCEPT ![slot] = outcome]
    /\ UNCHANGED <<rows, nextId, qParams, qCount, req, resp, sent>>
    /\ UNCHANGED <<csVars, valVars, parseVars>>

ApiIdle ==
    /\ req = <<>>
    /\ resp = <<>>
    /\ sent = <<>>

InitQuery ==
    /\ rows \in StoredRows
    /\ nextId = MaxRows + 1
    /\ qParams \in QueryBases
    /\ qRuns = [slot \in Slots |-> NotRun]
    /\ qCount = NotRun
    /\ ApiIdle
    /\ StoreReady
    /\ ValIdle
    /\ ParseIdle

(***************************************************************************)
(* Claims about the query compiler and pagination                          *)
(***************************************************************************)
\* Every statement handed to db.conn by the calls made so far.
StatementsSent ==
    {qRuns[slot].sent[i] : slot \in {s \in DOMAIN qRuns : qRuns[s].sent # <<>>}, i \in {1}}
    \cup {sent[i] : i \in 1..Len(sent)}

\* The text a compiler restricted to fixed keywords, quoted identifiers and
\* placeholders can emit; the integers of LIMIT and OFFSET are let through.
FixedKeywords ==
    {"SELECT * FROM", "SELECT COUNT(*) FROM", "INSERT INTO", "VALUES", "UPDATE",
     "SET", "DELETE FROM", "WHERE", "id", "AND", "OR", "(", ")", ",", "ORDER BY",
     "ASC", "DESC", "LIMIT", "OFFSET", "LIKE", "IN",
     "=", "!=", "<>", "<", "<=", ">", ">="}

QuotedIdentifiers == {quote(n) : n \in Identifiers}

\* C2: no untrusted value ever appears in SQL text: the text of every
\* statement sent to the store is made of quoted identifiers, fixed keywords
\* and placeholders only.
C2_OnlyKeywordsIdentifiersPlaceholders ==
    \A stmt \in StatementsSent :
       \A i \in 1..Len(stmt.sql) :
          \/ stmt.sql[i] \in FixedKeywords
          \/ stmt.sql[i] \in QuotedIdentifiers
          \/ stmt.sql[i] = "?"
          \/ IsInteger(stmt.sql[i])

\* The operators the compiler dispatches on; the empty operator is equality.
KnownOperators == {"", "=", "like", "in", ">", "<", ">=", "<=", "!=", "<>"}

HasUnknownOperator(params) ==
    \E i \in 1..Len(params.Filters) : params.Filters[i].Operator \notin KnownOperators

\* C3: a query whose Filter carries an operator that is not a known one
\* returns an error and no statement is sent to the store.
C3_UnknownOperatorRejected ==
    \A slot \in DOMAIN qRuns :
       (qRuns[slot] # NotRun /\ HasUnknownOperator(qParams)) =>
          /\ qRuns[slot].sent = <<>>
          /\ qRuns[slot].state = "returned"
          /\ qRuns[slot].err # ""

\* C10: when page 1, page 2 and the unpaginated query of the same sort,
\* filters and search have all returned rows from the same table state,
\* page 1 followed by page 2 is the first 2N rows of the unpaginated result,
\* and the two pages share no row.
C10_PagesArePrefixOfUnpaginated ==
    (/\ DOMAIN qRuns = Slots
     /\ \A slot \in Slots : qRuns[slot].state = "returned" /\ qRuns[slot].err = "") =>
       LET p1 == qRuns["page1"].rows
           p2 == qRuns["page2"].rows
           all == qRuns["all"].rows
           n == 2 * qParams.PageSize
       IN /\ p1 \o p2 = SubSeq(all, 1, IF n < Len(all) THEN n ELSE Len(all))
          /\ \A i \in 1..Len(p1), j \in 1..Len(p2) : p1[i] # p2[j]

(***************************************************************************)
(* The store: INSERT, UPDATE, DELETE, COUNT                                *)
(***************************************************************************)
\* The pieces at positions first, first + step, ... of a comma-separated list.
ListItems(toks, step) == [i \in 1..((Len(toks) + 1) \div step) |-> toks[step * (i - 1) + 1]]

\* toks is a non-empty list of items of step - 1 pieces separated by commas.
ListOK(toks, step) ==
    /\ Len(toks) % step = step - 1
    /\ \A i \in 1..Len(toks) : (i % step = 0) => toks[i] = ","

\* The column a double-quoted piece names, "" when it names none.
ColumnNamed(table, tok) ==
    IF \E c \in Columns(table) : quote(c) = tok
       THEN CHOOSE c \in Columns(table) : quote(c) = tok
       ELSE ""

FieldOf(table, col) ==
    table.model.Fields[CHOOSE j \in 1..Len(table.model.Fields) :
                          table.model.Fields[j].Name = col]

\* The constraints buildColumnDefinition declares, checked on the rows a
\* statement would leave in the table: "" when they all hold.
ConstraintError(table, newRows) ==
    IF \E r \in newRows : \E c \in Columns(table) :
          FieldOf(table, c).Type = "id" /\ r[c].k # "num"
       THEN "datatype mismatch"
    ELSE IF \E r \in newRows : \E c \in Columns(table) :
          FieldOf(table, c).Required /\ ~FieldOf(table, c).Primary /\ r[c] = Nil
       THEN "NOT NULL constraint failed"
    ELSE IF \E c \in Columns(table) :
          /\ FieldOf(table, c).Primary \/ FieldOf(table, c).Unique
          /\ \E r \in newRows :
                r[c] # Nil /\ Cardinality({q \in newRows : q[c] = r[c]}) > 1
       THEN "UNIQUE constraint failed"
    ELSE ""

Max(a, b) == IF a > b THEN a ELSE b

\* Outcome of a statement that changes the table: the statement, the error,
\* the rows and the AUTOINCREMENT sequence afterwards, the id of the
\* inserted row.
Changed(stmt, err, newRows, seq, id) ==
    [sent |-> <<stmt>>, err |-> err, rows |-> newRows, seq |-> seq, id |-> id]

\* db.conn.Exec of an INSERT; seq is the next id AUTOINCREMENT hands out.
ExecInsert(table, seq, stmt) ==
    LET sql == stmt.sql
        close == FirstAfter(sql, ")", 3)
        colToks == SubSeq(sql, 4, close - 1)
        phToks == SubSeq(sql, close + 3, Len(sql) - 1)
        cols == ListItems(colToks, 2)
        failed(message) == Changed(stmt, message, table.rows, seq, 0)
    IN IF ~Bindable(stmt) THEN failed("bind")
       ELSE IF \/ Len(sql) < 8 \/ close = 0
               \/ sql[1] # "INSERT INTO" \/ sql[3] # "("
               \/ sql[close + 1] # "VALUES" \/ sql[close + 2] # "("
               \/ sql[Len(sql)] # ")"
               \/ ~ListOK(colToks, 2) \/ ~ListOK(phToks, 2)
               \/ \E i \in 1..Len(phToks) : i % 2 = 1 /\ phToks[i] # "?"
               \/ Len(colToks) # Len(phToks)
          THEN failed("syntax")
       ELSE IF ~TableNamed(table, sql[2]) THEN failed("no such table")
       ELSE IF \E i \in 1..Len(cols) : ColumnNamed(table, cols[i]) = ""
          THEN failed("no such column")
       ELSE LET given(c) == {i \in 1..Len(cols) : ColumnNamed(table, cols[i]) = c}
                written == [c \in Columns(table) |->
                              IF given(c) = {} THEN Nil
                              ELSE ApplyAffinity(ColumnAffinity(table, c),
                                                 stmt.args[CHOOSE i \in given(c) : TRUE])]
                row == IF written["id"] = Nil
                          THEN [written EXCEPT !["id"] = Num(seq)]
                          ELSE written
                err == ConstraintError(table, table.rows \cup {row})
            IN IF err # "" THEN failed(err)
               ELSE Changed(stmt, "", table.rows \cup {row}, Max(seq, row["id"].n + 1), row["id"].n)

\* db.conn.Exec of an UPDATE.
ExecUpdate(table, seq, stmt, dqs) ==
    LET sql == stmt.sql
        w == FirstAfter(sql, "WHERE", 0)
        setToks == SubSeq(sql, 4, w - 1)
        cols == ListItems(setToks, 4)
        items == ParseItems(SubSeq(sql, w + 1, Len(sql)), 1, CountPh(setToks))
        failed(message) == Changed(stmt, message, table.rows, seq, 0)
    IN IF ~Bindable(stmt) THEN failed("bind")
       ELSE IF \/ Len(sql) < 3 \/ w = 0
               \/ sql[1] # "UPDATE" \/ sql[3] # "SET"
               \/ ~ListOK(setToks, 4)
               \/ \E i \in 1..Len(setToks) :
                     \/ i % 4 = 2 /\ setToks[i] # "="
                     \/ i % 4 = 3 /\ setToks[i] # "?"
               \/ ~ItemsOK(table, items, dqs)
          THEN failed("syntax")
       ELSE IF ~TableNamed(table, sql[2]) THEN failed("no such table")
       ELSE IF \E i \in 1..Len(cols) : ColumnNamed(table, cols[i]) = ""
          THEN failed("no such column")
       ELSE LET given(c) == {i \in 1..Len(cols) : ColumnNamed(table, cols[i]) = c}
                update(r) == [c \in Columns(table) |->
                                IF given(c) = {} THEN r[c]
                                ELSE ApplyAffinity(ColumnAffinity(table, c),
                                                   stmt.args[CHOOSE i \in given(c) :
                                                                \A j \in given(c) : j <= i])]
                hit(r) == EvalItems(table, r, stmt.args, items, dqs, 1, TRUE)
                newRows == {IF hit(r) THEN update(r) ELSE r : r \in table.rows}
                err == IF Cardinality(newRows) < Cardinality(table.rows)
                          THEN "UNIQUE constraint failed"
                          ELSE ConstraintError(table, newRows)
            IN IF err # "" THEN failed(err)
               ELSE Changed(stmt, "", newRows, seq, 0)

\* db.conn.Exec of a DELETE.
ExecDelete(table, seq, stmt, dqs) ==
    LET sql == stmt.sql
        items == ParseItems(SubSeq(sql, 4, Len(sql)), 1, 0)
        failed(message) == Changed(stmt, message, table.rows, seq, 0)
    IN IF ~Bindable(stmt) THEN failed("bind")
       ELSE IF \/ Len(sql) < 3
               \/ sql[1] # "DELETE FROM" \/ sql[3] # "WHERE"
               \/ ~ItemsOK(table, items, dqs)
          THEN failed("syntax")
       ELSE IF ~TableNamed(table, sql[2]) THEN failed("no such table")
       ELSE Changed(stmt, "", {r \in table.rows :
                           ~EvalItems(table, r, stmt.args, items, dqs, 1, TRUE)}, seq, 0)

\* db.conn.QueryRow of a SELECT COUNT(*) and the Scan of its single column.
ExecCount(table, stmt, dqs) ==
    LET sql == stmt.sql
        items == ParseItems(SubSeq(sql, 4, Len(sql)), 1, 0)
        counted(err, n) == [sent |-> <<stmt>>, err |-> err, count |-> n]
    IN IF ~Bindable(stmt) THEN counted("bind", 0)
       ELSE IF \/ Len(sql) < 2
               \/ sql[1] # "SELECT COUNT(*) FROM"
               \/ (Len(sql) > 2 /\ (sql[3] # "WHERE" \/ ~ItemsOK(table, items, dqs)))
          THEN counted("syntax", 0)
       ELSE IF ~TableNamed(table, sql[2]) THEN counted("no such table", 0)
       ELSE counted("", Cardinality({r \in table.rows :
                                       EvalItems(table, r, stmt.args, items, dqs, 1, TRUE)}))

(***************************************************************************)
(* SQLiteDB: Create, Update, Delete, Get, Count                            *)
(***************************************************************************)
\* Each method returns what the store answered, with the statement it sent.
Create(table, seq, model, data, order) ==
    ExecInsert(table, seq, buildInsertQuery(model, data, order))

\* An Update that returns sql.ErrNoRows when the UPDATE changed no row.
UpdateChecksRowsAffected(table, seq, model, id, data, order, dqs) ==
    LET stmt == buildUpdateQuery(model, id, data, order)
    IN IF \A r \in table.rows : Sprint(r["id"]) # Sprint(id)
          THEN Changed(stmt, "sql: no rows in result set", table.rows, seq, 0)
          ELSE ExecUpdate(table, seq, stmt, dqs)

Update(table, seq, model, id, data, order, dqs) ==
    ExecUpdate(table, seq, buildUpdateQuery(model, id, data, order), dqs)

Delete(table, seq, model, id, dqs) ==
    ExecDelete(table, seq, buildDeleteQuery(model, id), dqs)

ErrNoRows == "sql: no rows in result set"

\* SQLiteDB.Get through executeQueryRow: the error of db.conn.Query, or the
\* first row, or sql.ErrNoRows.
Get(table, model, id, dqs) ==
    LET stmt == getQuery(model, id) IN
    {[sent |-> <<stmt>>,
      err |-> IF out.err # "" THEN out.err
              ELSE IF out.rows = <<>> THEN ErrNoRows ELSE "",
      row |-> IF out.err = "" /\ out.rows # <<>> THEN out.rows[1] ELSE <<>>] :
        out \in ExecSelect(table, stmt, dqs) \cup {Failed(e) : e \in ConnErrors}}

Count(table, model, filters, dqs) ==
    ExecCount(table, countQuery(model, filters), dqs)

\* SQLiteDB.Count on the filters of the QueryParams under study.
DbCount ==
    /\ qCount = NotRun
    /\ \E dqs \in BOOLEAN :
       \E outcome \in {IF WherePanics(qParams.Filters)
                          THEN [state |-> "panic", sent |-> <<>>, err |-> "", count |-> 0]
                          ELSE [state |-> "returned"] @@ Count(Table(ItemModel, rows), "Item",
                                                               qParams.Filters, dqs)} :
          qCount' = outcome
    /\ UNCHANGED <<rows, nextId, qParams, qRuns, req, resp, sent>>
    /\ UNCHANGED <<csVars, valVars, parseVars>>

NextQuery ==
    \/ \E slot \in Slots : DbQuery(slot)
    \/ DbCount

SpecQuery == InitQuery /\ [][NextQuery]_vars

(***************************************************************************)
(* Claims about the shape of the compiled SELECT                           *)
(***************************************************************************)
\* The slots whose call handed a SELECT to db.conn, and that SELECT.
SlotsSent == {slot \in Slots : qRuns # <<>> /\ qRuns[slot].sent # <<>>}

SelectOf(slot) == qRuns[slot].sent[1].sql

Positions(sql, piece) == {k \in 1..Len(sql) : sql[k] = piece}

\* The pieces between ORDER BY and LIMIT (or the end of the statement).
OrderTermsOf(sql) ==
    LET from == CHOOSE k \in Positions(sql, "ORDER BY") : TRUE
        to == IF Positions(sql, "LIMIT") = {} THEN Len(sql)
              ELSE (CHOOSE k \in Positions(sql, "LIMIT") : TRUE) - 1
    IN SubSeq(sql, from + 1, to)

C13_LimitOffsetIffPaged ==
    \A slot \in SlotsSent :
       LET sql == SelectOf(slot)
           params == ParamsOf(qParams, slot)
           n == Len(sql)
       IN /\ (Positions(sql, "LIMIT") # {}) <=> (params.PageSize > 0)
          /\ (Positions(sql, "OFFSET") # {}) <=> (params.PageSize > 0)
          /\ (params.PageSize > 0) =>
                /\ Positions(sql, "LIMIT") = {n - 3}
                /\ Positions(sql, "OFFSET") = {n - 1}
                /\ IsInteger(sql[n - 2]) /\ IntegerOf(sql[n - 2]) = params.PageSize
                /\ IsInteger(sql[n]) /\ IntegerOf(sql[n]) = (params.Page - 1) * params.PageSize

\* Page 2 of size 2 has been compiled with OFFSET 2, and the unpaginated
\* call of the same parameters has been compiled without LIMIT.
C13_Witness ==
    /\ qParams # <<>> /\ qParams.PageSize = 2
    /\ {"page2", "all"} \subseteq SlotsSent
    /\ SubSeq(SelectOf("page2"), Len(SelectOf("page2")) - 3, Len(SelectOf("page2")))
          = <<"LIMIT", "2", "OFFSET", "2">>
    /\ Positions(SelectOf("all"), "LIMIT") = {}

\* What one filter asks of one row, read off the filter itself: the value
\* compared with the column under the operator, "" standing for equality.
FilterHolds(table, row, filter) ==
    LET op == CASE filter.Operator = "" -> "="
                [] filter.Operator = "like" -> "LIKE"
                [] OTHER -> filter.Operator
        arg == IF filter.Operator = "like"
                  THEN Str("%" \o Sprint(filter.Value) \o "%") ELSE filter.Value
    IN /\ filter.Field \in Columns(table)
       /\ EvalCond(table, row, <<arg>>, Cond(filter.Field, op, 0, 1), FALSE)

\* The term occurs in the text of at least one searchable column of the row.
SearchHolds(table, row, term) ==
    \E i \in 1..Len(table.model.Searchable) :
       LET v == row[table.model.Searchable[i]]
       IN v # Nil /\ Contains(ApplyAffinity("TEXT", v).s, term)

\* C14: with a search term and searchable fields, an unpaginated Query that
\* returns without error returns, once each, exactly the rows that satisfy
\* every filter and match the term in some searchable field; when filters
\* exist the search clauses are one parenthesised group after an AND that
\* runs up to ORDER BY.
C14_SearchNarrowsFilters ==
    (/\ qParams # <<>> /\ qParams.Search # ""
     /\ Len(ItemModel.Searchable) > 0
     /\ qRuns["all"].state = "returned" /\ qRuns["all"].err = "") =>
       LET table == Table(ItemModel, rows)
           got == qRuns["all"].rows
           sql == SelectOf("all")
           by == CHOOSE k \in Positions(sql, "ORDER BY") : TRUE
       IN /\ {got[i] : i \in 1..Len(got)} =
               {r \in rows : /\ \A i \in 1..Len(qParams.Filters) :
                                    FilterHolds(table, r, qParams.Filters[i])
                             /\ SearchHolds(table, r, qParams.Search)}
          /\ \A i, j \in 1..Len(got) : got[i] = got[j] => i = j
          /\ (qParams.Filters # <<>>) =>
                \E k \in 1..Len(sql) :
                   /\ sql[k] = "AND" /\ sql[k + 1] = "("
                   /\ sql[by - 1] = ")"
                   /\ Positions(sql, "OR") \subseteq (k + 1)..(by - 1)
                   /\ Positions(sql, "(") = {k + 1}

\* The filters keep two rows, the term matches only one of them, and the
\* query returned that one row.
C14_Witness ==
    /\ qParams # <<>> /\ qParams.Search # "" /\ qParams.Filters # <<>>
    /\ qRuns["all"].state = "returned" /\ qRuns["all"].err = ""
    /\ Len(qRuns["all"].rows) = 1
    /\ \E r \in rows : /\ \A i \in 1..Len(qParams.Filters) :
                              FilterHolds(Table(ItemModel, rows), r, qParams.Filters[i])
                       /\ ~SearchHolds(Table(ItemModel, rows), r, qParams.Search)

(***************************************************************************)
(* Claims about Count                                                      *)
(***************************************************************************)
\* C11: when Count and the unpaginated Query (PageSize 0, no search term) of
\* the same filters have both returned without error from the same table
\* state, the count is the number of rows the query returned.
C11_CountEqualsUnpaginatedLength ==
    (/\ qCount # <<>> /\ qCount.state = "returned" /\ qCount.err = ""
     /\ qRuns["all"].state = "returned" /\ qRuns["all"].err = ""
     /\ qParams.Search = "") =>
       qCount.count = Len(qRuns["all"].rows)

\* Two rows are stored, the filters keep one of them, and Count and the
\* unpaginated Query have both answered 1.
C11_Witness ==
    /\ qCount # <<>> /\ qCount.state = "returned" /\ qCount.err = ""
    /\ qRuns["all"].state = "returned" /\ qRuns["all"].err = ""
    /\ qParams.Search = ""
    /\ qParams.Filters # <<>>
    /\ Cardinality(rows) = 2
    /\ qCount.count = 1
    /\ Len(qRuns["all"].rows) = 1

(***************************************************************************)
(* api.API: the request handlers of one model                              *)
(***************************************************************************)
DefaultPageSize == 20
MaxPageSize == 100

\* A request: the id of the route ("" on the collection routes), the body
\* (valid is false when it is not JSON), the URL query as a map of raw
\* strings, and whether checkPermission returns nil for it.
Request(method, id, body, query, allowed) ==
    [method |-> method, id |-> id, body |-> body, query |-> query, allowed |-> allowed]

JSONBody(data) == [valid |-> TRUE, data |-> data]
NotJSON == [valid |-> FALSE, data |-> <<>>]
NoQuery == [key \in {} |-> ""]

\* sendResponse / sendError: status, error message, data, meta.
Response(status, message, data, meta) ==
    [status |-> status, error |-> message, data |-> data, meta |-> meta]

SendError(status, message) == Response(status, message, <<>>, <<>>)

\* What a handler did: the response, the statements sent, the table left.
Handled(response, stmts, newRows, seq) ==
    [resp |-> response, sent |-> stmts, rows |-> newRows, seq |-> seq]

\* strconv.Atoi on the raw strings of the model.
Decimals == {-1, 0, 1, 2, 3, DefaultPageSize, MaxPageSize, MaxPageSize + 1}
Atoi(s) ==
    IF \E n \in Decimals : ToString(n) = s
       THEN [ok |-> TRUE, n |-> CHOOSE n \in Decimals : ToString(n) = s]
       ELSE [ok |-> FALSE, n |-> 0]

\* strings.Split(s, ",") on the raw sort strings of the model.
SortItems == {"name", "id", "bogus", "-qty", "-name"}
Split(s) ==
    IF \E a, b \in SortItems : a \o "," \o b = s
       THEN CHOOSE pair \in SortItems \X SortItems : pair[1] \o "," \o pair[2] = s
       ELSE <<s>>

\* strings.HasPrefix / strings.TrimPrefix on the raw strings of the model.
HasPrefix(s, prefix) == \E n \in Identifiers : prefix \o n = s
TrimPrefix(s, prefix) ==
    IF HasPrefix(s, prefix) THEN CHOOSE n \in Identifiers : prefix \o n = s ELSE s

URLGet(query, key) == IF key \in DOMAIN query THEN query[key] ELSE ""

RECURSIVE QueryFilters(_, _, _)
\* The range over r.URL.Query() that collects the filters, keys in order.
QueryFilters(query, order, i) ==
    IF i > Len(order) THEN <<>>
    ELSE (IF HasPrefix(order[i], "filter.")
             THEN <<Filter(TrimPrefix(order[i], "filter."), "=", Str(query[order[i]]))>>
             ELSE <<>>)
         \o QueryFilters(query, order, i + 1)

\* A parse that takes page and page_size as given whenever they are numbers.
parseQueryParamsUnclamped(query, order) ==
    LET page == Atoi(URLGet(query, "page"))
        pageSize == Atoi(URLGet(query, "page_size"))
        sort == URLGet(query, "sort")
        fields == Split(sort)
    IN QueryParams(
         IF page.ok THEN page.n ELSE 1,
         IF pageSize.ok THEN pageSize.n ELSE DefaultPageSize,
         IF sort = "" THEN <<>>
         ELSE [i \in 1..Len(fields) |->
                 SortField(TrimPrefix(fields[i], "-"), HasPrefix(fields[i], "-"))],
         QueryFilters(query, order, 1),
         URLGet(query, "search"))

parseQueryParams(query, order) ==
    LET page == Atoi(URLGet(query, "page"))
        pageSize == Atoi(URLGet(query, "page_size"))
        sort == URLGet(query, "sort")
        fields == Split(sort)
    IN QueryParams(
         IF page.ok /\ page.n > 0 THEN page.n ELSE 1,
         IF pageSize.ok /\ pageSize.n > 0 /\ pageSize.n <= MaxPageSize
            THEN pageSize.n ELSE DefaultPageSize,
         IF sort = "" THEN <<>>
         ELSE [i \in 1..Len(fields) |->
                 SortField(TrimPrefix(fields[i], "-"), HasPrefix(fields[i], "-"))],
         QueryFilters(query, order, 1),
         URLGet(query, "search"))

\* filterEmptyPasswordFields: password fields that are nil or "" are deleted.
filterEmptyPasswordFields(model, data) ==
    LET dropped == {model.Fields[i].Name : i \in
                      {j \in 1..Len(model.Fields) :
                          /\ model.Fields[j].Type = "password"
                          /\ model.Fields[j].Name \in DOMAIN data
                          /\ data[model.Fields[j].Name] \in {Nil, Str("")}}}
    IN [key \in DOMAIN data \ dropped |-> data[key]]

\* handleCreate from db.Create on: the payload has been accepted.
createRecord(table, seq, model, data) ==
    UNION {IF c.err # ""
              THEN {Handled(SendError(500, c.err), c.sent, c.rows, c.seq)}
              ELSE {IF g.err # ""
                       THEN Handled(SendError(500, g.err), c.sent \o g.sent, c.rows, c.seq)
                       ELSE Handled(Response(201, "", g.row, <<>>), c.sent \o g.sent,
                                    c.rows, c.seq) :
                      g \in Get(Table(table.model, c.rows), model, Num(c.id), dqs)} :
             c \in {Create(table, seq, model, data, order) : order \in RangeOrders(data)},
             dqs \in BOOLEAN}

\* A create handler that goes to the store without validating.
handleCreateUnvalidated(table, seq, model, r) ==
    IF ~r.allowed THEN {Handled(SendError(403, "forbidden"), <<>>, table.rows, seq)}
    ELSE IF ~r.body.valid
       THEN {Handled(SendError(400, "Invalid JSON"), <<>>, table.rows, seq)}
    ELSE createRecord(table, seq, model, r.body.data)

handleCreate(table, seq, model, r) ==
    IF ~r.allowed THEN {Handled(SendError(403, "forbidden"), <<>>, table.rows, seq)}
    ELSE IF ~r.body.valid
       THEN {Handled(SendError(400, "Invalid JSON"), <<>>, table.rows, seq)}
    ELSE UNION {IF ~err.ok
                   THEN {Handled(SendError(400, err.Message), <<>>, table.rows, seq)}
                   ELSE createRecord(table, seq, model, r.body.data) :
                  err \in {ValidateCreate(table.model, r.body.data)}}

\* handleUpdate from db.Update on: the payload has been accepted.
updateRecord(table, seq, model, id, data) ==
    UNION {UNION {IF u.err # ""
                     THEN {Handled(SendError(500, u.err), u.sent, u.rows, u.seq)}
                     ELSE {IF g.err # ""
                              THEN Handled(SendError(500, g.err), u.sent \o g.sent,
                                           u.rows, u.seq)
                              ELSE Handled(Response(200, "", g.row, <<>>), u.sent \o g.sent,
                                           u.rows, u.seq) :
                             g \in Get(Table(table.model, u.rows), model, id, dqs)} :
                    u \in {Update(table, seq, model, id, data, order, dqs) :
                             order \in RangeOrders(data)}} :
             dqs \in BOOLEAN}

handleUpdate(table, seq, model, r) ==
    IF ~r.allowed THEN {Handled(SendError(403, "forbidden"), <<>>, table.rows, seq)}
    ELSE IF ~r.body.valid
       THEN {Handled(SendError(400, "Invalid JSON"), <<>>, table.rows, seq)}
    ELSE UNION {UNION {IF ~err.ok
                          THEN {Handled(SendError(400, err.Message), <<>>, table.rows, seq)}
                          ELSE updateRecord(table, seq, model, Str(r.id), data) :
                         err \in {ValidateUpdate(table.model, data, order) :
                                    order \in RangeOrders(data)}} :
                  data \in {filterEmptyPasswordFields(table.model, r.body.data)}}

handleDelete(table, seq, model, r) ==
    IF ~r.allowed THEN {Handled(SendError(403, "forbidden"), <<>>, table.rows, seq)}
    ELSE {IF d.err # ""
             THEN Handled(SendError(500, d.err), d.sent, d.rows, d.seq)
             ELSE Handled(Response(200, "", <<>>, <<>>), d.sent, d.rows, d.seq) :
            d \in {Delete(table, seq, model, Str(r.id), dqs) : dqs \in BOOLEAN}}

\* A get handler that answers not-found to every error of the store.
handleGetAlwaysNotFound(table, seq, model, r) ==
    IF ~r.allowed THEN {Handled(SendError(403, "forbidden"), <<>>, table.rows, seq)}
    ELSE UNION {{IF g.err # ""
                    THEN Handled(SendError(404, "Record not found"), g.sent, table.rows, seq)
                 ELSE Handled(Response(200, "", g.row, <<>>), g.sent, table.rows, seq) :
                   g \in Get(table, model, Str(r.id), dqs)} :
                  dqs \in BOOLEAN}

handleGet(table, seq, model, r) ==
    IF ~r.allowed THEN {Handled(SendError(403, "forbidden"), <<>>, table.rows, seq)}
    ELSE UNION {{IF g.err = ErrNoRows
                    THEN Handled(SendError(404, "Record not found"), g.sent, table.rows, seq)
                 ELSE IF g.err # ""
                    THEN Handled(SendError(500, g.err), g.sent, table.rows, seq)
                 ELSE Handled(Response(200, "", g.row, <<>>), g.sent, table.rows, seq) :
                   g \in Get(table, model, Str(r.id), dqs)} :
                  dqs \in BOOLEAN}

Meta(page, pageSize, total) ==
    [Page |-> page, PageSize |-> pageSize, TotalCount |-> total,
     TotalPages |-> (total \div pageSize) + (IF total % pageSize > 0 THEN 1 ELSE 0)]

handleList(table, seq, model, r) ==
    IF ~r.allowed THEN {Handled(SendError(403, "forbidden"), <<>>, table.rows, seq)}
    ELSE UNION {UNION {IF q.err # ""
                          THEN {Handled(SendError(500, q.err), q.sent, table.rows, seq)}
                          ELSE {IF c.err # ""
                                   THEN Handled(SendError(500, c.err), q.sent \o c.sent,
                                                table.rows, seq)
                                   ELSE Handled(Response(200, "", q.rows,
                                                         Meta(params.Page, params.PageSize,
                                                              c.count)),
                                                q.sent \o c.sent, table.rows, seq) :
                                  c \in {Count(table, model, params.Filters, dqs)}} :
                         q \in Query(table, model, params, dqs)} :
                  params \in {parseQueryParams(r.query, order) :
                                order \in RangeOrders(r.query)},
                  dqs \in BOOLEAN}

\* The body of a bulk request as json.Decode fills the request struct.
BulkRequest(operation, data, ids) ==
    JSONBody([Operation |-> operation, Data |-> data, IDs |-> ids])

RECURSIVE bulkCreate(_, _, _, _, _, _, _)
\* The loop of the "create" case of handleBulk from item i on: results and
\* stmts are what the earlier items gave.
bulkCreate(table, seq, model, items, i, results, stmts) ==
    IF i > Len(items)
       THEN {Handled(Response(201, "", results, <<>>), stmts, table.rows, seq)}
    ELSE UNION
      {IF ~err.ok
          THEN {Handled(SendError(400, err.Message), stmts, table.rows, seq)}
          ELSE UNION
            {IF c.err # ""
                THEN {Handled(SendError(500, c.err), stmts \o c.sent, c.rows, c.seq)}
                ELSE UNION
                  {IF g.err # ""
                      THEN {Handled(SendError(500, g.err), stmts \o c.sent \o g.sent,
                                    c.rows, c.seq)}
                      ELSE bulkCreate(Table(table.model, c.rows), c.seq, model, items,
                                      i + 1, Append(results, g.row),
                                      stmts \o c.sent \o g.sent) :
                     g \in Get(Table(table.model, c.rows), model, Num(c.id), dqs)} :
               c \in {Create(table, seq, model, items[i], order) :
                        order \in RangeOrders(items[i])},
               dqs \in BOOLEAN} :
         err \in {ValidateCreate(table.model, items[i])}}

RECURSIVE bulkDelete(_, _, _, _, _, _)
\* The loop of the "delete" case of handleBulk from id i on.
bulkDelete(table, seq, model, ids, i, stmts) ==
    IF i > Len(ids)
       THEN {Handled(Response(200, "", <<>>, <<>>), stmts, table.rows, seq)}
    ELSE UNION
      {IF d.err # ""
          THEN {Handled(SendError(500, d.err), stmts \o d.sent, d.rows, d.seq)}
          ELSE bulkDelete(Table(table.model, d.rows), d.seq, model, ids, i + 1,
                          stmts \o d.sent) :
         d \in {Delete(table, seq, model, ids[i], dqs) : dqs \in BOOLEAN}}

\* handleBulk: it decodes the body and switches on the operation; it makes
\* no call of checkPermission, so r.allowed is not read.
handleBulk(table, seq, model, r) ==
    IF ~r.body.valid
       THEN {Handled(SendError(400, "Invalid JSON"), <<>>, table.rows, seq)}
    ELSE IF r.body.data.Operation = "create"
       THEN bulkCreate(table, seq, model, r.body.data.Data, 1, <<>>, <<>>)
    ELSE IF r.body.data.Operation = "delete"
       THEN bulkDelete(table, seq, model, r.body.data.IDs, 1, <<>>)
    ELSE {Handled(SendError(400, "Invalid operation"), <<>>, table.rows, seq)}

\* ---- the requests served ----
\* The bodies of the bulk requests.
BulkBodies ==
    { NotJSON,
      BulkRequest("create", <<[name |-> Str("ab")]>>, <<>>),
      BulkRequest("create", <<[name |-> Str("ab"), qty |-> Num(5)], [qty |-> Num(5)]>>, <<>>),
      BulkRequest("delete", <<>>, <<Num(1)>>),
      BulkRequest("delete", <<>>, <<Num(1), Num(2)>>),
      BulkRequest("bogus", <<>>, <<>>) }

\* The number of records a bulk body asks to create.
BulkSize(body) ==
    IF body.valid /\ body.data.Operation = "create" THEN Len(body.data.Data) ELSE 0

Bodies ==
    { NotJSON,
      JSONBody(<<>>),
      JSONBody([name |-> Str("ab")]),
      JSONBody([name |-> Str("ab"), qty |-> Num(5)]),
      JSONBody([name |-> Str("ab"), qty |-> Num(-1)]),
      JSONBody([name |-> Str("http://x.y")]),
      JSONBody([qty |-> Num(5)]),
      JSONBody([qty |-> Nil]),
      JSONBody([name |-> Str("ab"), bogus |-> Num(5)]),
      JSONBody([id |-> Num(5), name |-> Str("ab")]),
      JSONBody([id |-> Str("2"), name |-> Str("ab")]) }

RouteIds == {"1", "2", "x"}

URLQueries ==
    { NoQuery,
      [sort |-> "name"],
      [sort |-> "-qty,id"],
      [sort |-> "bogus"],
      [search |-> "5"],
      [page |-> "2", page_size |-> "1"],
      [page |-> "0", page_size |-> "101"],
      [page |-> "x", page_size |-> "-1"],
      [key \in {"filter.name"} |-> "ab"],
      [key \in {"filter.bogus"} |-> "ab"],
      [key \in {"filter.qty", "search"} |-> IF key = "search" THEN "a" ELSE "5"] }

Serve(r, outcomes) ==
    /\ req' = r
    /\ \E out \in outcomes :
          /\ resp' = out.resp
          /\ sent' = out.sent
          /\ rows' = out.rows
          /\ nextId' = out.seq
    /\ UNCHANGED <<qParams, qRuns, qCount>>
    /\ UNCHANGED <<csVars, valVars, parseVars>>

HandleCreate ==
    /\ Cardinality(rows) < MaxRows
    /\ nextId <= MaxRows
    /\ \E body \in Bodies, allowed \in BOOLEAN :
          LET r == Request("POST", "", body, NoQuery, allowed)
          IN Serve(r, handleCreate(Table(ItemModel, rows), nextId, "Item", r))

HandleUpdate ==
    \E id \in RouteIds, body \in Bodies, allowed \in BOOLEAN :
       LET r == Request("PUT", id, body, NoQuery, allowed)
       IN Serve(r, handleUpdate(Table(ItemModel, rows), nextId, "Item", r))

HandleDelete ==
    \E id \in RouteIds, allowed \in BOOLEAN :
       LET r == Request("DELETE", id, NotJSON, NoQuery, allowed)
       IN Serve(r, handleDelete(Table(ItemModel, rows), nextId, "Item", r))

HandleGet ==
    \E id \in RouteIds, allowed \in BOOLEAN :
       LET r == Request("GET", id, NotJSON, NoQuery, allowed)
       IN Serve(r, handleGet(Table(ItemModel, rows), nextId, "Item", r))

HandleList ==
    \E query \in URLQueries, allowed \in BOOLEAN :
       LET r == Request("GET", "", NotJSON, query, allowed)
       IN Serve(r, handleList(Table(ItemModel, rows), nextId, "Item", r))

QueryIdle ==
    /\ qParams = <<>>
    /\ qRuns = <<>>
    /\ qCount = <<>>

InitAPI ==
    /\ rows = {}
    /\ nextId = 1
    /\ ApiIdle
    /\ QueryIdle
    /\ StoreReady
    /\ ValIdle
    /\ ParseIdle

\* POST /api/item/bulk
HandleBulk ==
    \E body \in BulkBodies, allowed \in BOOLEAN :
       /\ Cardinality(rows) + BulkSize(body) <= MaxRows
       /\ nextId + BulkSize(body) <= MaxRows + 1
       /\ LET r == Request("POST /bulk", "", body, NoQuery, allowed)
          IN Serve(r, handleBulk(Table(ItemModel, rows), nextId, "Item", r))

NextAPI ==
    HandleCreate \/ HandleUpdate \/ HandleDelete \/ HandleGet \/ HandleList \/ HandleBulk

SpecAPI == InitAPI /\ [][NextAPI]_vars

(***************************************************************************)
(* Claims about the request handlers                                       *)
(***************************************************************************)
Served == req # <<>>

\* The columns a request names: payload keys, filter fields, sort fields.
ColumnsNamed(r) ==
    IF r.method \in {"POST", "PUT"}
       THEN IF r.body.valid THEN DOMAIN r.body.data ELSE {}
    ELSE IF r.method = "GET" /\ r.id = ""
       THEN UNION {LET p == parseQueryParams(r.query, order) IN
                   {p.Filters[i].Field : i \in 1..Len(p.Filters)}
                   \cup {p.Sort[i].Field : i \in 1..Len(p.Sort)} :
                     order \in RangeOrders(r.query)}
    ELSE {}

\* C4: a permitted request that names a column the Model does not have, as
\* a filter field, a sort field or a payload key, is answered with a client
\* error and no statement reaches the store.
C4_UnknownColumnRejected ==
    (/\ Served
     /\ req.allowed
     /\ ColumnsNamed(req) \ FieldNames(ItemModel) # {}) =>
       /\ sent = <<>>
       /\ resp.status \in 400..499

\* The payload of a permitted create or update request is JSON and the
\* validator refuses it.
RejectedByValidation(r) ==
    /\ r.allowed
    /\ r.body.valid
    /\ \/ /\ r.method = "POST"
          /\ ~ValidateCreate(ItemModel, r.body.data).ok
       \/ /\ r.method = "PUT"
          /\ LET data == filterEmptyPasswordFields(ItemModel, r.body.data)
             IN \A order \in RangeOrders(data) : ~ValidateUpdate(ItemModel, data, order).ok

\* C5: when ValidateCreate / ValidateUpdate refuses the payload of a create
\* or update request, the handler answers 400, hands no statement to the
\* store, and the stored rows are the same after the request as before it.
C5_ValidationBeforeMutation ==
    /\ [](Served /\ RejectedByValidation(req) => resp.status = 400 /\ sent = <<>>)
    /\ [][(req' # <<>> /\ RejectedByValidation(req')) => rows' = rows]_vars

\* An update of an existing row with a payload the validator refuses has
\* been answered 400.
C5_Witness ==
    /\ Served
    /\ req.method = "PUT"
    /\ RejectedByValidation(req)
    /\ \E r \in rows : Str(ToString(r.id.n)) = Str(req.id)
    /\ resp.status = 400

(***************************************************************************)
(* Claims about create, get and update                                     *)
(***************************************************************************)
\* The record that holds the payload's values for the payload's columns and
\* the values of old for every other column.
Overlay(old, payload) ==
    [c \in DOMAIN old |-> IF c \in DOMAIN payload THEN payload[c] ELSE old[c]]

\* C15: a create that succeeds answers with the record Get returns for the
\* new id, and that record holds every payload column with the value
\* written; an update that succeeds answers with the record Get returns for
\* its id, and that record holds the payload's values for the payload's
\* columns and the previous values for every other column, every other row
\* staying as it was.
C15_CreateUpdateRoundTrip ==
    [][/\ (req' # <<>> /\ req'.method = "POST" /\ resp'.status = 201) =>
             /\ \A c \in DOMAIN req'.body.data :
                    c \in DOMAIN resp'.data /\ resp'.data[c] = req'.body.data[c]
             /\ resp'.data \notin rows
             /\ rows' = rows \cup {resp'.data}
       /\ (req' # <<>> /\ req'.method = "PUT" /\ resp'.status = 200) =>
             \E old \in rows :
                /\ old["id"] = resp'.data["id"]
                /\ resp'.data = Overlay(old, req'.body.data)
                /\ rows' = (rows \ {old}) \cup {resp'.data}]_vars

(***************************************************************************)
(* Claims about get and not-found                                          *)
(***************************************************************************)
\* The rows whose id is the one the route names.
RowsWithId(id) == {r \in rows : ToString(r["id"].n) = id}

GetServed == req # <<>> /\ req.method = "GET" /\ req.id # "" /\ req.allowed

C16_WitnessStoreFailure ==
    /\ GetServed /\ RowsWithId(req.id) # {}
    /\ resp.status = 500

(***************************************************************************)
(* CreateSchema at startup on a database file that may already be there    *)
(***************************************************************************)
\* The process starts: the file is new, or it holds the table of an earlier
\* process with its rows, with or without its index.
InitReopen ==
    /\ csSchema = StoreSchema
    /\ csPc = "idle"
    /\ csPending = {}
    /\ csRuns = 0
    /\ csErr = ""
    /\ execLog = <<>>
    /\ \/ /\ tables = {}
          /\ indexes = {}
          /\ rows = {}
          /\ nextId = 1
       \/ /\ tables = DOMAIN StoreSchema
          /\ indexes \in {{}, StmtNames(IndexStmts(StoreSchema, "Item"), "index")}
          /\ rows \in StoredRows
          /\ nextId = MaxRows + 1
    /\ QueryIdle
    /\ ApiIdle
    /\ ValIdle
    /\ ParseIdle

SpecReopen == InitReopen /\ [][NextSchema]_vars

\* Every table and index of the Schema is in the store.
SchemaCreated ==
    /\ tables = DOMAIN csSchema
    /\ indexes = UNION {StmtNames(IndexStmts(csSchema, m), "index") : m \in DOMAIN csSchema}

\* C17: CreateSchema never fails because a table or an index of the Schema
\* exists (the only errors are those of the connection), and once every
\* table and index of the Schema is in the store no step of a CreateSchema
\* call changes the tables, the indexes or the stored rows.
C17_CreateSchemaIdempotent ==
    /\ [](csPc = "failed" => csErr \in ConnErrors)
    /\ [][SchemaCreated =>
             /\ tables' = tables
             /\ indexes' = indexes
             /\ rows' = rows
             /\ nextId' = nextId]_vars

\* The second call of this process has returned nil on a store that holds
\* rows, after sending every statement of the Schema again.
C17_Witness ==
    /\ csRuns = 2
    /\ csPc = "done"
    /\ csErr = ""
    /\ rows # {}
    /\ SchemaCreated
    /\ Len(execLog) = 2

(***************************************************************************)
(* parser: ParseConfig (validateConfig, processConfig) and LoadConfig      *)
(***************************************************************************)
MaxFields == 2

\* FieldType.IsValid: the catalog of field types.
FieldTypes ==
    {"text", "number", "boolean", "datetime", "date", "time", "id", "email",
     "password", "phone", "url", "slug", "enum", "color", "file", "image",
     "markdown", "json", "array", "relation", "currency", "location", "ip",
     "uuid", "duration"}

\* The zero value of parser.FieldConfig with a type; Min and Max are ints,
\* 0 when the file does not give them.
FieldConfig(type) ==
    [Type |-> type, Primary |-> FALSE, Required |-> FALSE, Unique |-> FALSE,
     Min |-> 0, Max |-> 0, Pattern |-> "", Options |-> <<>>, Nullable |-> FALSE,
     Index |-> FALSE, To |-> "", OnDelete |-> "", Items |-> ""]

\* parser.ModelConfig with UI left nil; DefaultConfig fills App and Database.
ModelConfig(fields) == [Fields |-> fields]

Config(models) ==
    [App |-> [Name |-> "My Application"],
     Database |-> [Type |-> "sqlite", Path |-> "./data.db", Connection |-> ""],
     Models |-> models]

\* validateField: "" for nil.
validateFieldConfig(modelName, fieldName, field) ==
    IF field.Type \notin FieldTypes
       THEN "invalid field type '" \o field.Type \o "' for " \o modelName \o "." \o fieldName
    ELSE IF field.Type = "enum" /\ Len(field.Options) = 0
       THEN "enum field " \o modelName \o "." \o fieldName \o " must have options"
    ELSE IF field.Type = "relation" /\ field.To = ""
       THEN "relation field " \o modelName \o "." \o fieldName \o " must specify 'to' model"
    ELSE IF field.Type = "array" /\ field.Items = ""
       THEN "array field " \o modelName \o "." \o fieldName \o " must specify 'items' type"
    ELSE IF field.Min > field.Max /\ field.Max > 0
       THEN "field " \o modelName \o "." \o fieldName \o " has min > max"
    ELSE ""

RECURSIVE validateModelFrom(_, _, _, _, _)
\* The loop of validateModel over model.Fields, whose range yields the field
\* names in the order given, from position i on.
validateModelFrom(name, model, order, i, hasPrimary) ==
    IF i > Len(order)
       THEN IF ~hasPrimary THEN "model " \o name \o " has no primary key" ELSE ""
    ELSE LET field == model.Fields[order[i]] IN
         IF field.Primary /\ hasPrimary
            THEN "model " \o name \o " has multiple primary keys"
         ELSE IF validateFieldConfig(name, order[i], field) # ""
            THEN validateFieldConfig(name, order[i], field)
         ELSE validateModelFrom(name, model, order, i + 1, hasPrimary \/ field.Primary)

\* A validateModel that asks for a primary key and accepts several.
validateModelAnyPrimary(name, model, order) ==
    IF Len(order) = 0 THEN "model " \o name \o " has no fields"
    ELSE IF \E i \in 1..Len(order) :
               validateFieldConfig(name, order[i], model.Fields[order[i]]) # ""
       THEN LET i == CHOOSE j \in 1..Len(order) :
                        /\ validateFieldConfig(name, order[j], model.Fields[order[j]]) # ""
                        /\ \A k \in 1..(j - 1) :
                              validateFieldConfig(name, order[k], model.Fields[order[k]]) = ""
            IN validateFieldConfig(name, order[i], model.Fields[order[i]])
    ELSE IF \A i \in 1..Len(order) : ~model.Fields[order[i]].Primary
       THEN "model " \o name \o " has no primary key"
    ELSE ""

validateModel(name, model, order) ==
    IF Len(order) = 0 THEN "model " \o name \o " has no fields"
    ELSE validateModelFrom(name, model, order, 1, FALSE)

RECURSIVE validateModelsFrom(_, _, _, _)
\* The loop of validateConfig over config.Models.
validateModelsFrom(config, modelOrder, fieldOrder, i) ==
    IF i > Len(modelOrder) THEN ""
    ELSE LET name == modelOrder[i]
             err == validateModel(name, config.Models[name], fieldOrder[name])
         IN IF err # "" THEN err
            ELSE validateModelsFrom(config, modelOrder, fieldOrder, i + 1)

validateConfig(config, modelOrder, fieldOrder) ==
    IF config.App.Name = "" THEN "app.name is required"
    ELSE IF config.Database.Type \notin {"sqlite", "postgresql", "mysql"}
       THEN "unsupported database type: " \o config.Database.Type
    ELSE IF config.Database.Type = "sqlite" /\ config.Database.Path = ""
       THEN "database.path is required for SQLite"
    ELSE IF config.Database.Type # "sqlite" /\ config.Database.Connection = ""
       THEN "database.connection is required for " \o config.Database.Type
    ELSE validateModelsFrom(config, modelOrder, fieldOrder, 1)

\* The body of the inner loop of processConfig for one field.
processField(field) ==
    [field EXCEPT !.Primary = field.Primary \/ field.Type = "id",
                  !.Required = field.Required \/ field.Primary,
                  !.Unique = field.Unique \/ field.Primary]

processConfig(config) ==
    [config EXCEPT !.Models =
        [name \in DOMAIN config.Models |->
            [config.Models[name] EXCEPT !.Fields =
                [f \in DOMAIN config.Models[name].Fields |->
                    processField(config.Models[name].Fields[f])]]]]

\* generateDefaultUI, the searchable list: the range yields the field names
\* in the order given.
RECURSIVE DefaultSearchableFrom(_, _, _)
DefaultSearchableFrom(model, order, i) ==
    IF i > Len(order) THEN <<>>
    ELSE (IF /\ model.Fields[order[i]].Type # "password"
             /\ ~model.Fields[order[i]].Primary
             /\ model.Fields[order[i]].Type \in {"text", "email", "number"}
             THEN <<order[i]>> ELSE <<>>)
         \o DefaultSearchableFrom(model, order, i + 1)

\* The parser.Field LoadConfig builds from a FieldConfig.
LoadField(fieldName, fieldConfig) ==
    [Field(fieldName, fieldConfig.Type) EXCEPT
        !.Primary = fieldConfig.Primary,
        !.Required = fieldConfig.Required,
        !.Unique = fieldConfig.Unique,
        !.Nullable = fieldConfig.Nullable,
        !.Index = fieldConfig.Index,
        !.RelatedTo = fieldConfig.To,
        !.OnDelete = fieldConfig.OnDelete,
        !.Min = IF fieldConfig.Min > 0 THEN SomeInt(fieldConfig.Min) ELSE NoInt,
        !.Max = IF fieldConfig.Max > 0 THEN SomeInt(fieldConfig.Max) ELSE NoInt,
        !.Pattern = fieldConfig.Pattern,
        !.Options = fieldConfig.Options]

\* LoadConfig: fieldOrder[m] is the order in which the range over the fields
\* of model m yielded them, uiOrder[m] the order generateDefaultUI saw.
LoadConfig(config, fieldOrder, uiOrder) ==
    [name \in DOMAIN config.Models |->
        Model(name,
              [i \in 1..Len(fieldOrder[name]) |->
                 LoadField(fieldOrder[name][i], config.Models[name].Fields[fieldOrder[name][i]])],
              DefaultSearchableFrom(config.Models[name], uiOrder[name], 1))]

\* The orders in which the ranges over the fields of each model may run.
FieldOrders(config) ==
    {o \in [DOMAIN config.Models ->
              UNION {RangeOrders(config.Models[m].Fields) : m \in DOMAIN config.Models}] :
        \A m \in DOMAIN config.Models : o[m] \in RangeOrders(config.Models[m].Fields)}

\* ---- the files read ----
FieldConfigs ==
    { [FieldConfig("id") EXCEPT !.Primary = TRUE],
      FieldConfig("id"),
      [FieldConfig("text") EXCEPT !.Primary = TRUE],
      FieldConfig("text"),
      [FieldConfig("number") EXCEPT !.Min = 5, !.Max = 3],
      [FieldConfig("number") EXCEPT !.Min = -5, !.Max = -10],
      [FieldConfig("number") EXCEPT !.Min = 1, !.Max = 3],
      [FieldConfig("number") EXCEPT !.Max = -3],
      FieldConfig("enum"),
      [FieldConfig("enum") EXCEPT !.Options = <<"ab">>],
      FieldConfig("relation"),
      [FieldConfig("relation") EXCEPT !.To = "M"],
      FieldConfig("array"),
      [FieldConfig("array") EXCEPT !.Items = "text"],
      FieldConfig("bogus") }

ConfigFieldNames == {"id", "code", "kind"}

ModelConfigs ==
    {ModelConfig(fields) :
        fields \in UNION {[S -> FieldConfigs] :
                            S \in {T \in SUBSET ConfigFieldNames : Cardinality(T) <= MaxFields}}}

Configs == {Config([m \in {"M"} |-> mc]) : mc \in ModelConfigs}

\* ParseConfig after yaml.Unmarshal: validateConfig, then processConfig.
DoParseConfig ==
    /\ pPc = "start"
    /\ \E modelOrder \in RangeOrders(pIn.Models), fieldOrder \in FieldOrders(pIn) :
          \E err \in {validateConfig(pIn, modelOrder, fieldOrder)} :
             IF err # ""
                THEN /\ pPc' = "failed"
                     /\ pErr' = "invalid configuration: " \o err
                     /\ pConfig' = <<>>
                ELSE /\ pPc' = "parsed"
                     /\ pErr' = ""
                     /\ pConfig' = processConfig(pIn)
    /\ UNCHANGED <<pIn, pSchema>>
    /\ UNCHANGED <<csVars, valVars, dbVars>>

\* LoadConfig on the Config ParseConfig returned.
DoLoadConfig ==
    /\ pPc = "parsed"
    /\ \E fieldOrder \in FieldOrders(pConfig), uiOrder \in FieldOrders(pConfig) :
          pSchema' = LoadConfig(pConfig, fieldOrder, uiOrder)
    /\ pPc' = "loaded"
    /\ UNCHANGED <<pIn, pConfig, pErr>>
    /\ UNCHANGED <<csVars, valVars, dbVars>>

InitParse ==
    /\ pIn \in Configs
    /\ pPc = "start"
    /\ pConfig = <<>>
    /\ pErr = ""
    /\ pSchema = <<>>
    /\ CsIdle
    /\ ValIdle
    /\ DbIdle

\* The payloads tried on a loaded Model: one field other than the primary
\* key, one value.
LoadedPayloads(model) ==
    {[key \in {model.Fields[i].Name} |-> value] :
        i \in {j \in 1..Len(model.Fields) : ~model.Fields[j].Primary},
        value \in {Num(-1), Num(5), Num(200), Str("ab"), Nil}}

\* validation.NewValidator(schema).ValidateUpdate on the Schema LoadConfig
\* returned.
DoValidateLoaded ==
    /\ pPc = "loaded"
    /\ vOp = "none"
    /\ \E m \in DOMAIN pSchema :
       \E data \in LoadedPayloads(pSchema[m]) :
       \E order \in RangeOrders(data) :
          /\ vModel' = pSchema[m]
          /\ vData' = data
          /\ vOrder' = order
          /\ vErr' = ValidateUpdate(pSchema[m], data, order)
    /\ vOp' = "update"
    /\ UNCHANGED <<csVars, dbVars, parseVars>>

NextParse == DoParseConfig \/ DoLoadConfig \/ DoValidateLoaded

SpecParse == InitParse /\ [][NextParse]_vars

(***************************************************************************)
(* Claims about Schema construction                                        *)
(***************************************************************************)
\* The fields of a ModelConfig marked primary in the file.
PrimariesOf(model) == {f \in DOMAIN model.Fields : model.Fields[f].Primary}

\* C18: ParseConfig fails, returning no Config, for every file in which some
\* model has no field marked primary or has two or more.
C18_PrimaryCountEnforced ==
    (/\ pPc # "start"
     /\ \E m \in DOMAIN pIn.Models : Cardinality(PrimariesOf(pIn.Models[m])) # 1) =>
       /\ pPc = "failed"
       /\ pErr # ""
       /\ pConfig = <<>>
       /\ pSchema = <<>>

\* A file whose model marks two well-formed fields primary was refused for
\* that reason.
C18_Witness ==
    /\ pPc = "failed"
    /\ Cardinality(PrimariesOf(pIn.Models["M"])) = 2
    /\ pErr = "invalid configuration: model M has multiple primary keys"
    /\ pConfig = <<>>

\* C19: in every Schema LoadConfig returns for a Config ParseConfig returned,
\* each Model has exactly one field with Primary set, and that field is
\* Required and Unique.
C19_OnePrimaryRequiredUnique ==
    (pPc = "loaded") =>
       \A m \in DOMAIN pSchema :
          LET fields == pSchema[m].Fields
              primary == {i \in 1..Len(fields) : fields[i].Primary}
          IN /\ Cardinality(primary) = 1
             /\ \A i \in primary : fields[i].Required /\ fields[i].Unique

\* What the claim calls a malformed field: a type outside the catalog, an
\* enum without options, a relation without target, an array without element
\* type, or min greater than max with both given.
Malformed(field) ==
    \/ field.Type \notin FieldTypes
    \/ field.Type = "enum" /\ field.Options = <<>>
    \/ field.Type = "relation" /\ field.To = ""
    \/ field.Type = "array" /\ field.Items = ""
    \/ field.Min # 0 /\ field.Max # 0 /\ field.Min > field.Max

MalformedIn(config) ==
    {<<m, f>> \in (DOMAIN config.Models) \X ConfigFieldNames :
        f \in DOMAIN config.Models[m].Fields /\ Malformed(config.Models[m].Fields[f])}

\* The error text carries the name Model.Field.
NamesField(err, m, f) ==
    \E before \in {"invalid field type 'bogus' for ", "enum field ", "relation field ",
                   "array field ", "field "},
       after \in {"", " must have options", " must specify 'to' model",
                  " must specify 'items' type", " has min > max"} :
       err = "invalid configuration: " \o before \o m \o "." \o f \o after

\* C20: ParseConfig fails for every file with a malformed field, returns no
\* Config, no Schema is loaded, and the error names a malformed field with
\* its model.
C20_MalformedFieldRejected ==
    (pPc # "start" /\ MalformedIn(pIn) # {}) =>
       /\ pPc = "failed"
       /\ pConfig = <<>>
       /\ pSchema = <<>>
       /\ \E mf \in MalformedIn(pIn) : NamesField(pErr, mf[1], mf[2])

\* C21: for a number field whose configuration gives min or max, validation
\* on the loaded Schema rejects a value that is not a number (null counts as
\* no value), a number below the min given and a number above the max given.
C21_NumberBoundsEnforced ==
    (pPc = "loaded" /\ vOp = "update") =>
       \A f \in DOMAIN vData :
          LET declared == pIn.Models[vModel.Name].Fields[f]
              value == vData[f]
          IN (declared.Type = "number" /\ (declared.Min # 0 \/ declared.Max # 0)) =>
                /\ (value.k \notin {"num", "nil"}) => ~vErr.ok
                /\ (value.k = "num" /\ declared.Min # 0 /\ value.n < declared.Min) => ~vErr.ok
                /\ (value.k = "num" /\ declared.Max # 0 /\ value.n > declared.Max) => ~vErr.ok

\* The columns of the table of a model that createTable declares NOT NULL.
NotNullColumns(model) ==
    {model.Fields[i].Name :
        i \in {j \in 1..Len(model.Fields) :
                 \E k \in DOMAIN buildColumnDefinition(model.Fields[j]) :
                    buildColumnDefinition(model.Fields[j])[k] = "NOT NULL"}}

\* C22: a payload that ValidateCreate or ValidateUpdate accepts carries no
\* null for a column the CREATE TABLE of the same model declares NOT NULL,
\* and on create it carries every such column.
C22_AcceptedPayloadSatisfiesNotNull ==
    (vOp \in {"create", "update"} /\ vErr.ok) =>
       \A c \in NotNullColumns(vModel) :
          /\ c \in DOMAIN vData => vData[c] # Nil
          /\ vOp = "create" => c \in DOMAIN vData

\* The name of the primary column of a model.
PrimaryColumn(model) ==
    model.Fields[CHOOSE i \in 1..Len(model.Fields) : model.Fields[i].Primary].Name

\* The ON DELETE clause a declared policy selects.
PolicyClause(policy) ==
    CASE policy = "cascade" -> <<"ON DELETE CASCADE">>
      [] policy = "restrict" -> <<"ON DELETE RESTRICT">>
      [] policy = "set_null" -> <<"ON DELETE SET NULL">>
      [] OTHER -> <<>>

\* The relation fields of a model whose target is a model of the schema.
RelationFields(schema, model) ==
    {f \in {model.Fields[i] : i \in 1..Len(model.Fields)} :
        f.Type = "relation" /\ f.RelatedTo \in DOMAIN schema}

\* C23: every CREATE TABLE sent carries, for each relation field with a
\* target, a FOREIGN KEY on that column that references the primary column
\* of the target model, followed by the ON DELETE clause of the declared
\* policy and by nothing when no policy is declared.
C23_ForeignKeyPerRelation ==
    \A i \in 1..Len(execLog) :
       execLog[i].kind = "table" =>
          \A f \in RelationFields(csSchema, csSchema[execLog[i].model]) :
             \E k \in 1..Len(execLog[i].constraints) :
                LET c == execLog[i].constraints[k]
                IN /\ Len(c) >= 9
                   /\ SubSeq(c, 1, 5) = <<"FOREIGN KEY", "(", quote(f.Name), ")", "REFERENCES">>
                   /\ c[6] = quote(f.RelatedTo)
                   /\ c[8] = PrimaryColumn(csSchema[f.RelatedTo])
                   /\ SubSeq(c, 10, Len(c)) = PolicyClause(f.OnDelete)

ListServed == req # <<>> /\ req.method = "GET" /\ req.id = "" /\ req.allowed

\* The QueryParams parseQueryParams can yield for a request.
ParsedParams(r) == {parseQueryParams(r.query, order) : order \in RangeOrders(r.query)}

WriteSent ==
    /\ req # <<>>
    /\ req.method \in {"POST", "PUT"}
    /\ sent # <<>>

\* C25: the INSERT sent for a create request lists each key of the payload
\* once and its i-th argument is the payload value of its i-th column; the
\* UPDATE sent for an update request sets each key of the payload once, its
\* i-th argument is the payload value of its i-th SET column, its last
\* argument is the id of the route, and the primary key is not among the
\* SET columns.
C25_ArgumentsAlignedWithColumns ==
    WriteSent =>
       LET stmt == sent[1]
           data == req.body.data
           n == Cardinality(DOMAIN data)
           col(i) == IF req.method = "POST" THEN stmt.sql[2 * i + 2] ELSE stmt.sql[4 * i]
       IN /\ stmt.sql[1] = (IF req.method = "POST" THEN "INSERT INTO" ELSE "UPDATE")
          /\ Len(stmt.args) = (IF req.method = "POST" THEN n ELSE n + 1)
          /\ \A i \in 1..n : \E c \in DOMAIN data :
                col(i) = quote(c) /\ stmt.args[i] = data[c]
          /\ \A c \in DOMAIN data : \E i \in 1..n : col(i) = quote(c)
          /\ req.method = "PUT" =>
                /\ stmt.args[n + 1] = Str(req.id)
                /\ \A i \in 1..n : col(i) # quote(PrimaryColumn(ItemModel))

\* An update with a payload of two keys of different values changed row 1.
C25_Witness ==
    /\ WriteSent
    /\ req.method = "PUT"
    /\ req.id = "1"
    /\ req.body.data = [name |-> Str("ab"), qty |-> Num(5)]
    /\ resp.status = 200
    /\ Len(sent[1].args) = 3

\* The statements Query and Count handed to the store, the COUNT included.
SelectsAndCountsSent ==
    StatementsSent
    \cup (IF qCount # NotRun THEN {qCount.sent[i] : i \in 1..Len(qCount.sent)} ELSE {})

\* C26: every SELECT and COUNT statement handed to the store has as many ?
\* placeholders in its text as it has arguments bound.
C26_PlaceholdersMatchArguments ==
    \A stmt \in SelectsAndCountsSent :
       Cardinality({i \in 1..Len(stmt.sql) : stmt.sql[i] = "?"}) = Len(stmt.args)

\* The stored rows that satisfy every filter and the search term of params.
Matching(table, params) ==
    {r \in table.rows :
        /\ \A i \in 1..Len(params.Filters) : FilterHolds(table, r, params.Filters[i])
        /\ params.Search # "" => SearchHolds(table, r, params.Search)}

\* C27: the total count of a list answer is the number of stored rows that
\* satisfy the filters and the search term of the request, and the total
\* pages are that count divided by the page size, rounded up.
C27_TotalCountsFilteredAndSearched ==
    (ListServed /\ resp.status = 200) =>
       \E p \in ParsedParams(req) :
          LET total == Cardinality(Matching(Table(ItemModel, rows), p))
          IN /\ resp.meta.TotalCount = total
             /\ resp.meta.TotalPages = (total + p.PageSize - 1) \div p.PageSize

\* C28: the statement sent for a create or update request names at least
\* one column: the column list of the INSERT is not empty and the SET list
\* of the UPDATE is not empty.
C28_WriteNamesAColumn ==
    WriteSent =>
       /\ Len(sent[1].sql) >= 4
       /\ sent[1].sql[4] \notin {")", "WHERE"}
       /\ Len(sent[1].args) >= (IF req.method = "POST" THEN 1 ELSE 2)

\* The request r is a permitted delete, or a permitted update whose payload
\* is not empty and passes ValidateUpdate, and no stored row has its id.
AbsentWrite(r) ==
    /\ r # <<>>
    /\ r.allowed
    /\ RowsWithId(r.id) = {}
    /\ \/ r.method = "DELETE"
       \/ /\ r.method = "PUT"
          /\ r.body.valid
          /\ r.body.data # <<>>
          /\ \A order \in RangeOrders(r.body.data) :
                ValidateUpdate(ItemModel, r.body.data, order).ok

C29_WitnessDelete ==
    /\ AbsentWrite(req)
    /\ req.method = "DELETE"
    /\ req.id = "2"
    /\ RowsWithId("1") # {}
    /\ resp.status = 200

\* C30: a create, update, delete or bulk request that fails the permission
\* check is answered 403 whatever its body is, and no statement reaches the
\* store.
C30_PermissionCheckedFirst ==
    (/\ req # <<>>
     /\ req.method \in {"POST", "PUT", "DELETE", "POST /bulk"}
     /\ ~req.allowed) =>
       /\ resp.status = 403
       /\ sent = <<>>

====
